---- MODULE Spec2Model ----
(***************************************************************************)
(* Model of openwrt-configurator: the condition evaluator                  *)
(* (internal/condition), the per-device state resolver and script          *)
(* assembly (internal/device), the UCI command generator (internal/uci)    *)
(* and the provisioning loop (internal/provision).                         *)
(*                                                                         *)
(* A Go string is a sequence of symbols: a word of letters, digits and     *)
(* underscores that starts with a letter is one symbol, every other byte   *)
(* is a symbol of its own.  The code never looks inside a word: it scans   *)
(* for quotes, operators, dots, dashes, spaces and digits, which are all   *)
(* symbols of their own.  JSON values are tagged records.  A Go panic is   *)
(* a result record whose err field names the panic.                        *)
(***************************************************************************)
EXTENDS Integers, Sequences, FiniteSets, TLC

(* Condition evaluation: the drawn condition, its text, the device facts,  *)
(* the result of Evaluate.                                                 *)
VARIABLES condAst, condition, ctx, condResult, condPc
(* parseValue and compareValues on one literal and one fact value: the     *)
(* literal as written, the fact, what parseValue returned and what         *)
(* compareValues returned for == and for !=.                               *)
VARIABLES litToken, litFact, litParsed, litEq, litNe, litPc

(* Resolution and script assembly for one device.                          *)
VARIABLES docConfig, docDevice, devSchema, executor, targetState, script, resPc

(* The mock client of the tests: the client, the commands Execute was     *)
(* called with, those its OnExecute callback was called with, and what    *)
(* the last call returned.                                                *)
VARIABLES mock, mockCalls, hookCalls, mockOut, mockErr, mockPc

(* ProvisionConfig over a batch: the document, the program position, the   *)
(* locals of ProvisionConfig and provisionDevice, and what the devices saw. *)
VARIABLES provConfig, provPc, enabledDevices, deviceSchemas, devIdx, devState,
          commands, cmdIdx, revertIdx, revertFailed, sentLog, schemaLog,
          resolvedLog, provRet

litVars == <<litToken, litFact, litParsed, litEq, litNe, litPc>>
condVars == <<condAst, condition, ctx, condResult, condPc, litVars>>

mockVars == <<mock, mockCalls, hookCalls, mockOut, mockErr, mockPc>>

resVars == <<docConfig, docDevice, devSchema, executor, targetState, script, resPc,
             mockVars>>

provVars == <<provConfig, provPc, enabledDevices, deviceSchemas, devIdx, devState,
              commands, cmdIdx, revertIdx, revertFailed, sentLog, schemaLog,
              resolvedLog, provRet>>

vars == <<condVars, resVars, provVars>>

LitIdle ==
    /\ litToken = <<>>
    /\ litFact = <<>>
    /\ litParsed = <<>>
    /\ litEq = FALSE
    /\ litNe = FALSE
    /\ litPc = "idle"

EvalIdle ==
    /\ condAst = <<>>
    /\ condition = <<>>
    /\ ctx = <<>>
    /\ condResult = <<>>
    /\ condPc = "idle"

CondIdle == EvalIdle /\ LitIdle

MockIdle ==
    /\ mock = <<>>
    /\ mockCalls = <<>>
    /\ hookCalls = <<>>
    /\ mockOut = <<>>
    /\ mockErr = "none"
    /\ mockPc = "idle"

ResolveIdle ==
    /\ docConfig = <<>>
    /\ docDevice = <<>>
    /\ devSchema = <<>>
    /\ executor = <<>>
    /\ targetState = <<>>
    /\ script = <<>>
    /\ resPc = "idle"

ResIdle == ResolveIdle /\ MockIdle

ProvIdle ==
    /\ provConfig = <<>>
    /\ provPc = "idle"
    /\ enabledDevices = <<>>
    /\ deviceSchemas = <<>>
    /\ devIdx = 0
    /\ devState = <<>>
    /\ commands = <<>>
    /\ cmdIdx = 0
    /\ revertIdx = 0
    /\ revertFailed = FALSE
    /\ sentLog = <<>>
    /\ schemaLog = <<>>
    /\ resolvedLog = <<>>
    /\ provRet = <<>>

----------------------------------------------------------------------------
(* Bounds *)

MaxOperands == 3

MaxOverrides == 2

MaxSections == 2

MaxDevices == 2
MaxListLen == 2
MaxProfiles == 2
MaxExemptions == 2

----------------------------------------------------------------------------
(* Strings *)

NilStr == <<"<nil>">>

Star == <<"*">>

SQ == "'"

DQ == "\""

StrOrOp == <<"|", "|">>

StrAndOp == <<"&", "&">>

StrEq == <<"=", "=">>

StrNe == <<"!", "=">>

StrTrue == <<"true">>

StrFalse == <<"false">>

StrNull == <<"null">>

StrGoNil == <<"<", "nil", ">">>

StrDeviceDot == <<"device", ".">>

StrHostname == StrDeviceDot \o <<"hostname">>

StrIPAddr == StrDeviceDot \o <<"ipaddr">>

StrModelID == StrDeviceDot \o <<"model_id">>

StrVersion == StrDeviceDot \o <<"version">>

StrSwConfig == StrDeviceDot \o <<"sw_config">>

StrTagDot == StrDeviceDot \o <<"tag", ".">>

StrRole == <<"role">>

Digits == <<"0", "1", "2", "3", "4", "5", "6", "7", "8", "9">>

IsSpace(c) == c \in {" ", "\t", "\n", "\r"}

RECURSIVE TrimLeft(_)
TrimLeft(s) ==
    IF Len(s) > 0 /\ IsSpace(Head(s)) THEN TrimLeft(Tail(s)) ELSE s

RECURSIVE TrimRight(_)
TrimRight(s) ==
    IF Len(s) > 0 /\ IsSpace(s[Len(s)])
    THEN TrimRight(SubSeq(s, 1, Len(s) - 1))
    ELSE s

TrimSpace(s) == TrimRight(TrimLeft(s))

HasPrefix(s, p) == Len(s) >= Len(p) /\ SubSeq(s, 1, Len(p)) = p

HasSuffix(s, p) ==
    Len(s) >= Len(p) /\ SubSeq(s, Len(s) - Len(p) + 1, Len(s)) = p

----------------------------------------------------------------------------
(* JSON values and their %v text *)

VStr(s) == [t |-> "str", s |-> s]

VBool(b) == [t |-> "bool", b |-> b]

VNum(n) == [t |-> "num", n |-> n]

VNull == [t |-> "null"]

VList(l) == [t |-> "list", l |-> l]

RECURSIVE Itoa(_)
Itoa(n) ==
    IF n < 0 THEN <<"-">> \o Itoa(0 - n)
    ELSE IF n < 10 THEN <<Digits[n + 1]>>
    ELSE Itoa(n \div 10) \o <<Digits[(n % 10) + 1]>>

IsDigit(c) == \E i \in 1..10 : Digits[i] = c

DigitVal(c) == (CHOOSE i \in 1..10 : Digits[i] = c) - 1

RECURSIVE Atoi(_)
Atoi(s) ==
    IF Len(s) = 0 THEN 0
    ELSE Atoi(SubSeq(s, 1, Len(s) - 1)) * 10 + DigitVal(s[Len(s)])

IsJSONInt(s) ==
    LET d == IF Len(s) > 0 /\ s[1] = "-" THEN Tail(s) ELSE s
    IN  /\ Len(d) > 0
        /\ \A i \in 1..Len(d) : IsDigit(d[i])
        /\ (Len(d) > 1 => d[1] # "0")

IsJSONString(s) ==
    /\ Len(s) >= 2
    /\ s[1] = DQ
    /\ s[Len(s)] = DQ
    /\ \A i \in 2..(Len(s) - 1) : s[i] \notin {DQ, "\\", "\n", "\t", "\r"}

unmarshalTrimmed(s) ==
    IF s = StrTrue THEN [ok |-> TRUE, value |-> VBool(TRUE)]
    ELSE IF s = StrFalse THEN [ok |-> TRUE, value |-> VBool(FALSE)]
    ELSE IF s = StrNull THEN [ok |-> TRUE, value |-> VNull]
    ELSE IF IsJSONInt(s)
    THEN [ok |-> TRUE,
          value |-> VNum(IF s[1] = "-" THEN 0 - Atoi(Tail(s)) ELSE Atoi(s))]
    ELSE IF IsJSONString(s)
    THEN [ok |-> TRUE, value |-> VStr(SubSeq(s, 2, Len(s) - 1))]
    ELSE [ok |-> FALSE, value |-> VNull]

JSONUnmarshal(s0) == unmarshalTrimmed(TrimSpace(s0))

Sprintv(v) ==
    IF v.t = "str" THEN v.s
    ELSE IF v.t = "bool" THEN (IF v.b THEN StrTrue ELSE StrFalse)
    ELSE IF v.t = "num" THEN Itoa(v.n)
    ELSE StrGoNil

----------------------------------------------------------------------------
(* internal/condition *)

ErrNone == "none"

ErrUnknownVar == "UnknownConditionVariable"

ErrMalformed == "MalformedCondition"

CondOk(b) == [err |-> ErrNone, val |-> b]

CondPanic(e) == [err |-> e, val |-> FALSE]

(* ctx is [hostname, ipaddr, model_id, version, sw_config, tags]; tags is  *)
(* a function from tag keys to JSON values.                                *)
buildLHSMapping(c) ==
    LET builtin == {StrSwConfig, StrHostname, StrIPAddr, StrModelID, StrVersion}
        tagPaths == {StrTagDot \o k : k \in DOMAIN c.tags}
    IN  [p \in builtin \cup tagPaths |->
            IF p \in tagPaths
            THEN c.tags[CHOOSE k \in DOMAIN c.tags : StrTagDot \o k = p]
            ELSE IF p = StrSwConfig THEN VBool(c.sw_config)
            ELSE IF p = StrHostname THEN VStr(c.hostname)
            ELSE IF p = StrIPAddr THEN VStr(c.ipaddr)
            ELSE IF p = StrModelID THEN VStr(c.model_id)
            ELSE VStr(c.version)]

RECURSIVE splitByOperatorLoop(_, _, _, _, _, _)
splitByOperatorLoop(expr, operator, i, current, inQuotes, parts) ==
    IF i > Len(expr)
    THEN IF Len(current) > 0 THEN Append(parts, current) ELSE parts
    ELSE IF expr[i] = SQ \/ expr[i] = DQ
    THEN splitByOperatorLoop(expr, operator, i + 1, Append(current, expr[i]),
                             ~inQuotes, parts)
    ELSE IF /\ ~inQuotes
            /\ i + Len(operator) - 1 <= Len(expr)
            /\ SubSeq(expr, i, i + Len(operator) - 1) = operator
    THEN splitByOperatorLoop(expr, operator, i + Len(operator), <<>>,
                             inQuotes, Append(parts, current))
    ELSE splitByOperatorLoop(expr, operator, i + 1, Append(current, expr[i]),
                             inQuotes, parts)

splitByOperator(expr, operator) ==
    splitByOperatorLoop(expr, operator, 1, <<>>, FALSE, <<>>)

RECURSIVE splitComparisonLoop(_, _, _, _, _)
splitComparisonLoop(expr, operator, i, inQuotes, quoteChar) ==
    IF i > Len(expr) THEN <<expr>>
    ELSE IF expr[i] = SQ \/ expr[i] = DQ
    THEN IF ~inQuotes
         THEN splitComparisonLoop(expr, operator, i + 1, TRUE, expr[i])
         ELSE IF expr[i] = quoteChar
         THEN splitComparisonLoop(expr, operator, i + 1, FALSE, quoteChar)
         ELSE splitComparisonLoop(expr, operator, i + 1, inQuotes, quoteChar)
    ELSE IF /\ ~inQuotes
            /\ i + Len(operator) - 1 <= Len(expr)
            /\ SubSeq(expr, i, i + Len(operator) - 1) = operator
    THEN <<SubSeq(expr, 1, i - 1), SubSeq(expr, i + Len(operator), Len(expr))>>
    ELSE splitComparisonLoop(expr, operator, i + 1, inQuotes, quoteChar)

splitComparison(expr, operator) ==
    splitComparisonLoop(expr, operator, 1, FALSE, "")

(* parseValue: the text with one pair of surrounding quotes removed ...    *)
stripQuotes(s1) ==
    IF \/ (HasPrefix(s1, <<SQ>>) /\ HasSuffix(s1, <<SQ>>))
       \/ (HasPrefix(s1, <<DQ>>) /\ HasSuffix(s1, <<DQ>>))
    THEN SubSeq(s1, 2, Len(s1) - 1)
    ELSE s1

(* ... is what json.Unmarshal yields (j), else the text itself.           *)
jsonOrString(s, j) == IF j.ok THEN j.value ELSE VStr(s)

parseValue(s0) ==
    jsonOrString(stripQuotes(TrimSpace(s0)),
                 JSONUnmarshal(stripQuotes(TrimSpace(s0))))

compareScalar(lhs, rhs) ==
    IF lhs.t = "bool" /\ rhs.t = "bool" THEN lhs.b = rhs.b
    ELSE Sprintv(lhs) = Sprintv(rhs)

(* if equals { return result }; return !result                            *)
resultFor(equals, result) == IF equals THEN result ELSE ~result

compareValuesListAsScalar(lhs, rhs, equals) ==
    resultFor(equals, compareScalar(lhs, rhs))

compareValues(lhs, rhs, equals) ==
    IF lhs.t = "list"
    THEN resultFor(equals, \E i \in 1..Len(lhs.l) : compareScalar(lhs.l[i], rhs))
    ELSE resultFor(equals, compareScalar(lhs, rhs))

(* The body shared by the == and the != branch of evaluateComparison.     *)
compareSides(lhs, rhs, lhsMapping, equals) ==
    IF lhs \notin DOMAIN lhsMapping THEN CondPanic(ErrUnknownVar)
    ELSE CondOk(compareValues(lhsMapping[lhs], parseValue(rhs), equals))

(* evaluateComparison on the two splits of the trimmed expression.        *)
evaluateSplit(eqParts, neParts, lhsMapping) ==
    IF Len(eqParts) = 2
    THEN compareSides(TrimSpace(eqParts[1]), TrimSpace(eqParts[2]),
                      lhsMapping, TRUE)
    ELSE IF Len(neParts) = 2
    THEN compareSides(TrimSpace(neParts[1]), TrimSpace(neParts[2]),
                      lhsMapping, FALSE)
    ELSE CondPanic(ErrMalformed)

evaluateTrimmed(expr, lhsMapping) ==
    evaluateSplit(splitComparison(expr, StrEq), splitComparison(expr, StrNe),
                  lhsMapping)

evaluateComparison(expr0, lhsMapping) ==
    evaluateTrimmed(TrimSpace(expr0), lhsMapping)

(* The loop over andParts: r is the comparison of andParts[i]; a false    *)
(* comparison breaks the loop, a panic ends the evaluation.               *)
RECURSIVE evaluateAndParts(_, _, _)
andPartStep(r, andParts, i, lhsMapping) ==
    IF r.err # ErrNone THEN r
    ELSE IF ~r.val THEN CondOk(FALSE)
    ELSE evaluateAndParts(andParts, i + 1, lhsMapping)

evaluateAndParts(andParts, i, lhsMapping) ==
    IF i > Len(andParts) THEN CondOk(TRUE)
    ELSE andPartStep(evaluateComparison(TrimSpace(andParts[i]), lhsMapping),
                     andParts, i, lhsMapping)

(* The loop over orParts: r is allTrue of orParts[i]; the first group     *)
(* that is all true returns true.                                         *)
RECURSIVE evaluateOrParts(_, _, _)
orPartStep(r, orParts, i, lhsMapping) ==
    IF r.err # ErrNone THEN r
    ELSE IF r.val THEN CondOk(TRUE)
    ELSE evaluateOrParts(orParts, i + 1, lhsMapping)

evaluateOrParts(orParts, i, lhsMapping) ==
    IF i > Len(orParts) THEN CondOk(FALSE)
    ELSE orPartStep(evaluateAndParts(splitByOperator(orParts[i], StrAndOp), 1,
                                     lhsMapping),
                    orParts, i, lhsMapping)

evaluateExpression(expr, lhsMapping) ==
    evaluateOrParts(splitByOperator(expr, StrOrOp), 1, lhsMapping)

Evaluate(cond, c) ==
    IF cond = NilStr \/ cond = Star THEN CondOk(TRUE)
    ELSE evaluateExpression(cond, buildLHSMapping(c))

----------------------------------------------------------------------------
(* Conditions and device facts the evaluator is run on.  A condition is    *)
(* drawn as a list of operands joined by || and && and rendered to the     *)
(* text that Evaluate receives.                                            *)

Lit(text, value) == [text |-> text, value |-> value]

LitR == Lit(<<SQ, "r", SQ>>, VStr(<<"r">>))

LitA == Lit(<<SQ, "a", SQ>>, VStr(<<"a">>))

LitTrue == Lit(StrTrue, VBool(TRUE))

LitIts == Lit(<<DQ, "it", SQ, "s", DQ>>, VStr(<<"it", SQ, "s">>))
(* Literals that hold operator tokens between their quotes.               *)
LitOrInQuotes == Lit(<<SQ, "a", "|", "|", "r", SQ>>, VStr(<<"a", "|", "|", "r">>))
LitOpsAfterQuote ==
    Lit(<<DQ, "it", SQ, "s", "&", "&", "a", "=", "=", "r", DQ>>,
        VStr(<<"it", SQ, "s", "&", "&", "a", "=", "=", "r">>))

Cmp(path, op, lit) == [kind |-> "cmp", path |-> path, op |-> op, lit |-> lit]

EmptyOperand == [kind |-> "empty", path |-> <<>>, op |-> "", lit |-> Lit(<<>>, VNull)]

BareOperand == [kind |-> "bare", path |-> StrHostname, op |-> "", lit |-> Lit(<<>>, VNull)]

Operands ==
    { Cmp(StrHostname, "==", LitR),
      Cmp(StrTagDot \o StrRole, "!=", LitA),
      Cmp(StrSwConfig, "==", LitTrue),
      Cmp(StrHostname, "==", LitIts),
      Cmp(StrHostname, "!=", LitOrInQuotes),
      Cmp(StrHostname, "!=", LitOpsAfterQuote),
      EmptyOperand,
      BareOperand }

Separators == {"||", "&&"}

NilAst == [form |-> "nil", ops |-> <<>>, seps |-> <<>>]

StarAst == [form |-> "star", ops |-> <<>>, seps |-> <<>>]

ExprAst(o, s) == [form |-> "expr", ops |-> o, seps |-> s]

RenderOperand(o) ==
    IF o.kind = "cmp"
    THEN o.path \o <<" ">> \o (IF o.op = "==" THEN StrEq ELSE StrNe)
                \o <<" ">> \o o.lit.text
    ELSE o.path

(* || is written without spaces around it, && with.                      *)
RenderSep(sep) ==
    IF sep = "||" THEN StrOrOp ELSE <<" ">> \o StrAndOp \o <<" ">>

RECURSIVE RenderFrom(_, _)
RenderFrom(ast, i) ==
    IF i > Len(ast.ops) THEN <<>>
    ELSE (IF i > 1 THEN RenderSep(ast.seps[i - 1]) ELSE <<>>)
         \o RenderOperand(ast.ops[i]) \o RenderFrom(ast, i + 1)

Render(ast) ==
    IF ast.form = "nil" THEN NilStr
    ELSE IF ast.form = "star" THEN Star
    ELSE RenderFrom(ast, 1)

NoTags == [k \in {} |-> VNull]

RoleTag(v) == [k \in {StrRole} |-> v]

MkCtx(hostname, tags, sw) ==
    [hostname |-> hostname, ipaddr |-> <<"1", "0", ".", "0", ".", "0", ".", "1">>,
     model_id |-> <<"erx">>, version |-> <<"2", "3">>,
     sw_config |-> sw, tags |-> tags]

Contexts ==
    { MkCtx(h, tg[1], tg[2]) :
        h \in {<<"r">>, <<"a">>},
        tg \in { <<NoTags, FALSE>>,
                 <<RoleTag(VStr(<<"r">>)), TRUE>>,
                 <<RoleTag(VList(<<VStr(<<"r">>), VStr(<<"a">>)>>)), FALSE>> } }

CondInit ==
    /\ LitIdle
    /\ ResIdle
    /\ ProvIdle
    /\ \/ condAst \in {NilAst, StarAst}
       \/ \E n \in 1..MaxOperands :
             \E o \in [1..n -> Operands], s \in [1..(n - 1) -> Separators] :
                 condAst = ExprAst(o, s)
    /\ condition = Render(condAst)
    /\ ctx \in Contexts
    /\ condResult = CondOk(FALSE)
    /\ condPc = "start"

EvaluateStep ==
    /\ condPc = "start"
    /\ condResult' = Evaluate(condition, ctx)
    /\ condPc' = "done"
    /\ UNCHANGED <<condAst, condition, ctx, litVars, resVars, provVars>>

CondNext == EvaluateStep

SpecCond == CondInit /\ [][CondNext]_vars

(* What the condition language of the specification says about a drawn    *)
(* condition, read off the operand list and not off the rendered text.    *)

WellFormed(ast) == \A i \in 1..Len(ast.ops) : ast.ops[i].kind = "cmp"

FactPaths(c) ==
    {StrSwConfig, StrHostname, StrIPAddr, StrModelID, StrVersion}
    \cup {StrTagDot \o k : k \in DOMAIN c.tags}

UnknownAt(ast, c, i) == ast.ops[i].kind = "cmp" /\ ast.ops[i].path \notin FactPaths(c)

KnownPaths(ast, c) == \A i \in 1..Len(ast.ops) : ~UnknownAt(ast, c, i)

FactOf(path, c) ==
    IF path = StrSwConfig THEN VBool(c.sw_config)
    ELSE IF path = StrHostname THEN VStr(c.hostname)
    ELSE IF path = StrIPAddr THEN VStr(c.ipaddr)
    ELSE IF path = StrModelID THEN VStr(c.model_id)
    ELSE IF path = StrVersion THEN VStr(c.version)
    ELSE c.tags[SubSeq(path, Len(StrTagDot) + 1, Len(path))]

ScalarEqual(a, b) ==
    IF a.t = "bool" /\ b.t = "bool" THEN a.b = b.b ELSE Sprintv(a) = Sprintv(b)

ComparisonHolds(o, c) ==
    LET fact == FactOf(o.path, c)
        eq == IF fact.t = "list"
              THEN \E j \in 1..Len(fact.l) : ScalarEqual(fact.l[j], o.lit.value)
              ELSE ScalarEqual(fact, o.lit.value)
    IN  IF o.op = "==" THEN eq ELSE ~eq

OrGroupOf(ast, i) == Cardinality({j \in 1..(i - 1) : ast.seps[j] = "||"})

OrOfAnds(ast, c) ==
    \E g \in 0..Len(ast.seps) :
        /\ \E i \in 1..Len(ast.ops) : OrGroupOf(ast, i) = g
        /\ \A i \in 1..Len(ast.ops) :
              OrGroupOf(ast, i) = g => ComparisonHolds(ast.ops[i], c)

(* C8: a condition that references a fact path absent from the device     *)
(* facts ends in the UnknownConditionVariable error wherever the path     *)
(* occurs in the expression.                                              *)
C8_UnknownPathAlwaysFatal ==
    (condPc = "done" /\ condAst.form = "expr" /\ WellFormed(condAst)
        /\ ~KnownPaths(condAst, ctx))
    => condResult.err = ErrUnknownVar

(* C9: a condition that does not parse into the OR/AND/comparison grammar *)
(* (an empty string or an empty || or && operand included) never yields a *)
(* boolean, and ends in MalformedCondition when all its paths are known.  *)
C9_MalformedAlwaysFatal ==
    (condPc = "done" /\ condAst.form = "expr" /\ ~WellFormed(condAst))
    => /\ condResult.err # ErrNone
       /\ KnownPaths(condAst, ctx) => condResult.err = ErrMalformed

(* C10: for a well-formed condition over known paths Evaluate returns     *)
(* true iff the condition is absent, is "*", or some ||-group has all of  *)
(* its &&-comparisons true.                                               *)
C10_EvaluateIsOrOfAnds ==
    (condPc = "done"
        /\ (condAst.form = "expr" => WellFormed(condAst) /\ KnownPaths(condAst, ctx)))
    => condResult = CondOk(condAst.form \in {"nil", "star"} \/ OrOfAnds(condAst, ctx))

(* How the evaluator cuts a condition: its ||-parts, the &&-parts of each *)
(* and the sides of each comparison.                                      *)
Contains(s, t) ==
    \E k \in 1..(Len(s) - Len(t) + 1) : SubSeq(s, k, k + Len(t) - 1) = t
SidesOf(andPart) ==
    IF Len(splitComparison(TrimSpace(andPart), StrEq)) = 2
    THEN splitComparison(TrimSpace(andPart), StrEq)
    ELSE splitComparison(TrimSpace(andPart), StrNe)
KeptWhole(text, expr) ==
    \E i \in 1..Len(splitByOperator(expr, StrOrOp)) :
        \E j \in 1..Len(splitByOperator(splitByOperator(expr, StrOrOp)[i], StrAndOp)) :
            Contains(SidesOf(splitByOperator(splitByOperator(expr, StrOrOp)[i],
                                             StrAndOp)[j])
                        [Len(SidesOf(splitByOperator(
                                 splitByOperator(expr, StrOrOp)[i], StrAndOp)[j]))],
                     text)
HasOperatorInside(lit) ==
    \E op \in {StrOrOp, StrAndOp, StrEq, StrNe} : Contains(lit.text, op)
(* C11: an operator token inside a quoted literal is never a separator:   *)
(* every quoted literal of a well-formed condition that holds an operator *)
(* token ends up whole in the right-hand side of one comparison.          *)
C11_QuotedOperatorNeverSeparates ==
    (condPc = "done" /\ condAst.form = "expr" /\ WellFormed(condAst))
    => \A i \in 1..Len(condAst.ops) :
           HasOperatorInside(condAst.ops[i].lit)
           => KeptWhole(condAst.ops[i].lit.text, condition)
----------------------------------------------------------------------------
(* parseValue and compareValues on their own.  A literal is drawn as the  *)
(* text between its quotes (with the JSON scalar that text denotes, if    *)
(* any), a quote character or none, and blanks around it; a fact value is *)
(* a scalar or a list of scalars, as the tags of a device hold them.      *)
Inner(text, ok, value) == [text |-> text, ok |-> ok, value |-> value]

Inners ==
    { Inner(<<"r">>, FALSE, VNull),
      Inner(StrTrue, TRUE, VBool(TRUE)),
      Inner(StrFalse, TRUE, VBool(FALSE)),
      Inner(StrNull, TRUE, VNull),
      Inner(<<"4", "2">>, TRUE, VNum(42)),
      Inner(<<"-", "7">>, TRUE, VNum(0 - 7)),
      Inner(<<"0", "7">>, FALSE, VNull),
      Inner(<<>>, FALSE, VNull) }

Quotes == {"", SQ, DQ}

Token(inner, quote, pad) ==
    [inner |-> inner, quote |-> quote,
     text |-> pad \o (IF quote = "" THEN inner.text
                      ELSE <<quote>> \o inner.text \o <<quote>>) \o pad]

FactScalars ==
    { VStr(<<"r">>), VStr(StrTrue), VStr(<<"4", "2">>), VBool(TRUE), VBool(FALSE),
      VNum(42), VNull }

LitInit ==
    /\ EvalIdle
    /\ ResIdle
    /\ ProvIdle
    /\ \E inner \in Inners, quote \in Quotes, pad \in {<<>>, <<" ">>} :
          litToken = Token(inner, quote, pad)
    /\ \/ litFact \in FactScalars
       \/ \E n \in 0..MaxListLen : \E l \in [1..n -> FactScalars] :
             litFact = VList(l)
    /\ litParsed = VNull
    /\ litEq = FALSE
    /\ litNe = FALSE
    /\ litPc = "start"

ParseValueStep ==
    /\ litPc = "start"
    /\ litParsed' = parseValue(litToken.text)
    /\ litPc' = "parsed"
    /\ UNCHANGED <<litToken, litFact, litEq, litNe, condAst, condition, ctx,
                   condResult, condPc, resVars, provVars>>

CompareValuesStep ==
    /\ litPc = "parsed"
    /\ litEq' = compareValues(litFact, litParsed, TRUE)
    /\ litNe' = compareValues(litFact, litParsed, FALSE)
    /\ litPc' = "compared"
    /\ UNCHANGED <<litToken, litFact, litParsed, condAst, condition, ctx,
                   condResult, condPc, resVars, provVars>>

LitNext == ParseValueStep \/ CompareValuesStep

SpecLit == LitInit /\ [][LitNext]_vars

(* What the specification says a literal denotes.                         *)
Denotes(token) ==
    IF token.quote # "" THEN VStr(token.inner.text)
    ELSE IF token.inner.ok THEN token.inner.value
    ELSE VStr(token.inner.text)

(* C12: a quoted literal parses to the string between its quotes, never   *)
(* to a boolean, number or null; an unquoted literal parses to the JSON   *)
(* scalar it denotes, or to the raw string when it is not valid JSON.     *)
C12_LiteralParsing ==
    litPc \in {"parsed", "compared"} => litParsed = Denotes(litToken)

(* The unquoted half of C12 on its own.                                   *)
UnquotedLiteralParsing ==
    (litPc \in {"parsed", "compared"} /\ litToken.quote = "")
    => litParsed = Denotes(litToken)

(* C13: against a list, == is membership and != its negation; against a  *)
(* scalar, equality is equality of booleans or else of the string forms;  *)
(* != is always the negation of ==.                                       *)
ExpectedEqual(fact, lit) ==
    IF fact.t = "list"
    THEN \E i \in 1..Len(fact.l) : ScalarEqual(fact.l[i], lit)
    ELSE ScalarEqual(fact, lit)

C13_ComparisonSemantics ==
    litPc = "compared"
    => /\ litEq = ExpectedEqual(litFact, litParsed)
       /\ litNe = ~litEq

C13_Witness ==
    /\ litPc = "compared"
    /\ litFact.t = "list"
    /\ Len(litFact.l) = 2
    /\ litFact.l[1].t = "bool"
    /\ litParsed.t = "num"
    /\ litEq
    /\ ~litNe

----------------------------------------------------------------------------
(* internal/device: resolution of the per-device state.  A JSON object is *)
(* a function from keys to tagged values.                                  *)

VObj(o) == [t |-> "obj", o |-> o]

EmptyObj == [k \in {} |-> VNull]

KeyIf == <<".", "if">>

KeyOverrides == <<".", "overrides">>

KeyName == <<".", "name">>

KeyOverride == <<"override">>

KeyExtra == <<"extra">>

MergeKeepExisting(result, data) ==
    [k \in DOMAIN result \cup DOMAIN data |->
        IF k \in DOMAIN result THEN result[k] ELSE data[k]]

Merge(result, data) ==
    [k \in DOMAIN result \cup DOMAIN data |->
        IF k \in DOMAIN data THEN data[k] ELSE result[k]]

ApplyOk(o) == [err |-> ErrNone, obj |-> o]

ApplyPanic(e) == [err |-> e, obj |-> EmptyObj]

ConditionOf(obj) ==
    IF KeyIf \in DOMAIN obj /\ obj[KeyIf].t = "str" THEN obj[KeyIf].s ELSE NilStr

RECURSIVE applyOverrides(_, _, _, _)
(* One override of the list: m is the outcome of its condition.           *)
applyOverride(m, result, overrides, i, c) ==
    IF m.err # ErrNone THEN ApplyPanic(m.err)
    ELSE IF /\ m.val
            /\ KeyOverride \in DOMAIN overrides[i].o
            /\ overrides[i].o[KeyOverride].t = "obj"
    THEN applyOverrides(Merge(result, overrides[i].o[KeyOverride].o),
                        overrides, i + 1, c)
    ELSE applyOverrides(result, overrides, i + 1, c)

applyOverrides(result, overrides, i, c) ==
    IF i > Len(overrides) THEN ApplyOk(result)
    ELSE IF overrides[i].t # "obj"
    THEN applyOverrides(result, overrides, i + 1, c)
    ELSE applyOverride(Evaluate(ConditionOf(overrides[i].o), c),
                       result, overrides, i, c)

(* applyObject once the condition of obj has been evaluated to matches.   *)
applyMatched(matches, obj, c) ==
    IF matches.err # ErrNone THEN ApplyPanic(matches.err)
    ELSE IF ~matches.val THEN ApplyOk(EmptyObj)
    ELSE IF KeyOverrides \in DOMAIN obj /\ obj[KeyOverrides].t = "list"
    THEN applyOverrides([k \in DOMAIN obj \ {KeyIf, KeyOverrides} |-> obj[k]],
                        obj[KeyOverrides].l, 1, c)
    ELSE ApplyOk([k \in DOMAIN obj \ {KeyIf, KeyOverrides} |-> obj[k]])

applyObjectIgnoringIf(obj, c) == applyMatched(CondOk(TRUE), obj, c)

applyObject(obj, c) == applyMatched(Evaluate(ConditionOf(obj), c), obj, c)

(* The sections of one section list, resolved in list order; a panic      *)
(* stops the loop.  r is the outcome of applyObject on sections[i].       *)
RECURSIVE resolveSectionList(_, _, _, _)
resolveSection(r, sections, i, acc, c) ==
    IF r.err # ErrNone THEN [err |-> r.err, list |-> <<>>]
    ELSE IF DOMAIN r.obj # {}
    THEN resolveSectionList(sections, i + 1, Append(acc, r.obj), c)
    ELSE resolveSectionList(sections, i + 1, acc, c)

resolveSectionList(sections, i, acc, c) ==
    IF i > Len(sections) THEN [err |-> ErrNone, list |-> acc]
    ELSE IF sections[i].t # "obj"
    THEN resolveSectionList(sections, i + 1, acc, c)
    ELSE resolveSection(applyObject(sections[i].o, c), sections, i, acc, c)

(* One iteration of the loop over configMap: the applied group and, per   *)
(* section key, the outcome of its section list.                          *)
sectionKeysOf(obj) ==
    {k \in DOMAIN obj : ~HasPrefix(k, <<".">>) /\ obj[k].t = "list"}

groupOutcomeKeepEmpty(applied, lists) ==
    [errs |-> IF applied.err # ErrNone THEN {applied.err}
              ELSE {lists[k].err : k \in DOMAIN lists} \ {ErrNone},
     sections |-> [k \in DOMAIN lists |-> lists[k].list]]

groupOutcome(applied, lists) ==
    [errs |-> IF applied.err # ErrNone THEN {applied.err}
              ELSE {lists[k].err : k \in DOMAIN lists} \ {ErrNone},
     sections |-> [k \in {x \in DOMAIN lists : Len(lists[x].list) > 0} |->
                      lists[k].list]]

resolveApplied(applied, c) ==
    groupOutcome(applied,
                 [k \in sectionKeysOf(applied.obj) |->
                     resolveSectionList(applied.obj[k].l, 1, <<>>, c)])

resolveGroup(configObj, c) == resolveApplied(applyObject(configObj, c), c)

(* resolveConfig ranges over configMap in map order, so when several      *)
(* groups panic any of their panics can be the one that ends the run.     *)
configOutcome(res) ==
    [errs |-> UNION {res[g].errs : g \in DOMAIN res},
     config |-> [g \in {x \in DOMAIN res : DOMAIN res[x].sections # {}} |->
                    res[g].sections]]

resolveConfig(configMap, c) ==
    configOutcome([g \in {x \in DOMAIN configMap :
                             x # KeyExtra /\ configMap[x].t = "obj"} |->
                      resolveGroup(configMap[g].o, c)])

----------------------------------------------------------------------------
(* Go map iteration order is unspecified: a loop over a map can visit its *)
(* keys in any order.                                                      *)

Perms(S) ==
    {p \in [1..Cardinality(S) -> S] :
        \A i, j \in 1..Cardinality(S) : i # j => p[i] # p[j]}

RECURSIVE SeqProduct(_)
SeqProduct(ss) ==
    IF Len(ss) = 0 THEN {<<>>}
    ELSE {h \o t : h \in Head(ss), t \in SeqProduct(Tail(ss))}

(* The command lists a loop over the keys of a map can append, F(k) being *)
(* the lists its body can append for key k.                               *)
RangeOverMap(keys, F(_)) ==
    UNION { SeqProduct([i \in 1..Len(p) |-> F(p[i])]) : p \in Perms(keys) }

RECURSIVE FindSep(_, _, _)
FindSep(s, sep, i) ==
    IF i + Len(sep) - 1 > Len(s) THEN 0
    ELSE IF SubSeq(s, i, i + Len(sep) - 1) = sep THEN i
    ELSE FindSep(s, sep, i + 1)

RECURSIVE Split(_, _)
Split(s, sep) ==
    LET i == FindSep(s, sep, 1)
    IN  IF i = 0 THEN <<s>>
        ELSE <<SubSeq(s, 1, i - 1)>> \o Split(SubSeq(s, i + Len(sep), Len(s)), sep)

RECURSIVE Flatten(_)
Flatten(ss) == IF Len(ss) = 0 THEN <<>> ELSE Head(ss) \o Flatten(Tail(ss))

RECURSIVE SelectIdx(_, _, _)
SelectIdx(s, keep, i) ==
    IF i > Len(s) THEN <<>>
    ELSE (IF i \in keep THEN <<s[i]>> ELSE <<>>) \o SelectIdx(s, keep, i + 1)

Range(s) == {s[i] : i \in 1..Len(s)}

(* The items of the entries (package profiles, configs_to_not_reset)      *)
(* whose condition holds, in entry order; a panic stops the loop.         *)
RECURSIVE collectMatching(_, _, _, _)
collectEntryAnyCondition(m, entries, i, acc, c) ==
    IF m.err # ErrNone THEN [err |-> m.err, items |-> <<>>]
    ELSE collectMatching(entries, i + 1, acc \o entries[i].items, c)

collectEntry(m, entries, i, acc, c) ==
    IF m.err # ErrNone THEN [err |-> m.err, items |-> <<>>]
    ELSE IF m.val
    THEN collectMatching(entries, i + 1, acc \o entries[i].items, c)
    ELSE collectMatching(entries, i + 1, acc, c)

collectMatching(entries, i, acc, c) ==
    IF i > Len(entries) THEN [err |-> ErrNone, items |-> acc]
    ELSE collectEntry(Evaluate(entries[i].If, c), entries, i, acc, c)

Package(pkg) ==
    LET parts == Split(pkg, <<"@">>)
    IN  [Name |-> parts[1], Version |-> IF Len(parts) > 1 THEN parts[2] ELSE <<>>]

IsUninstallToken(pkg) == Len(pkg) > 0 /\ pkg[1] = "-"

(* The install and uninstall lists when the loop over packageSet visits   *)
(* the distinct tokens in the order p.                                    *)
planOf(p) ==
    LET ins == SelectIdx(p, {j \in 1..Len(p) : ~IsUninstallToken(p[j])}, 1)
        uns == SelectIdx(p, {j \in 1..Len(p) : IsUninstallToken(p[j])}, 1)
    IN  [install |-> [i \in 1..Len(ins) |-> Package(ins[i])],
         uninstall |-> [i \in 1..Len(uns) |-> Tail(uns[i])]]

plansOf(all) ==
    [err |-> all.err, plans |-> {planOf(p) : p \in Perms(Range(all.items))}]

(* resolvePackages: the (install, uninstall) lists for each order in      *)
(* which the loop over packageSet can visit the distinct tokens.          *)
resolvePackages(profiles, c) == plansOf(collectMatching(profiles, 1, <<>>, c))

resolveConfigsToNotReset(entries, c) == collectMatching(entries, 1, <<>>, c)

getConfigSectionsToResetNoWildcard(configSections, configsToNotReset) ==
    LET notResetSet == Range(configsToNotReset)
        sectionsToReset(configKey) ==
            SelectIdx(configSections[configKey],
                      {i \in 1..Len(configSections[configKey]) :
                          (configKey \o <<".">> \o configSections[configKey][i])
                              \notin notResetSet},
                      1)
        kept == {configKey \in DOMAIN configSections :
                    Len(sectionsToReset(configKey)) > 0}
    IN  [configKey \in kept |-> sectionsToReset(configKey)]

getConfigSectionsToReset(configSections, configsToNotReset) ==
    LET notResetSet == Range(configsToNotReset)
        sectionsToReset(configKey) ==
            SelectIdx(configSections[configKey],
                      {i \in 1..Len(configSections[configKey]) :
                          (configKey \o <<".">> \o configSections[configKey][i])
                              \notin notResetSet},
                      1)
        kept == {configKey \in DOMAIN configSections :
                    /\ (configKey \o <<".", "*">>) \notin notResetSet
                    /\ Len(sectionsToReset(configKey)) > 0}
    IN  [configKey \in kept |-> sectionsToReset(configKey)]

StateOk(cfg, plan, reset) ==
    [err |-> ErrNone, Config |-> cfg, PackagesToInstall |-> plan.install,
     PackagesToUninstall |-> plan.uninstall, ConfigSectionsToReset |-> reset]

StatePanic(e) ==
    [err |-> e, Config |-> EmptyObj, PackagesToInstall |-> <<>>,
     PackagesToUninstall |-> <<>>, ConfigSectionsToReset |-> EmptyObj]

ConditionContext(deviceConfig, deviceSchema) ==
    [hostname |-> deviceConfig.Hostname, ipaddr |-> deviceConfig.IPAddr,
     model_id |-> deviceConfig.ModelID, tags |-> deviceConfig.Tags,
     sw_config |-> deviceSchema.SwConfig, version |-> deviceSchema.Version]

(* GetOpenWrtState: every state, or panic, the call can end in.           *)
stateOutcomes(resolved, pkgs, notReset, deviceSchema) ==
    IF resolved.errs # {} THEN {StatePanic(e) : e \in resolved.errs}
    ELSE IF pkgs.err # ErrNone THEN {StatePanic(pkgs.err)}
    ELSE IF notReset.err # ErrNone THEN {StatePanic(notReset.err)}
    ELSE {StateOk(resolved.config, plan,
                  getConfigSectionsToReset(deviceSchema.ConfigSections,
                                           notReset.items))
            : plan \in pkgs.plans}

(* The config object of the document is loaded by ConfigConfig's          *)
(* UnmarshalJSON: the six known groups go to their fields and every other *)
(* key to Extra.  resolveConfig starts from json.Marshal of the loaded    *)
(* struct, and Extra is tagged json:"-", so only the fields come back.    *)
knownFields ==
    {<<"system">>, <<"network">>, <<"firewall">>, <<"dhcp">>, <<"wireless">>,
     <<"dropbear">>}

UnmarshalJSON(raw) ==
    [Fields |-> [k \in DOMAIN raw \cap knownFields |-> raw[k]],
     Extra |-> [k \in DOMAIN raw \ knownFields |-> raw[k]]]

MarshalConfig(configConfig) == configConfig.Fields

stateInContext(oncConfig, c, deviceSchema) ==
    stateOutcomes(resolveConfig(MarshalConfig(UnmarshalJSON(oncConfig.Config)), c),
                  resolvePackages(oncConfig.PackageProfiles, c),
                  resolveConfigsToNotReset(oncConfig.ConfigsToNotReset, c),
                  deviceSchema)

GetOpenWrtState(oncConfig, deviceConfig, deviceSchema) ==
    stateInContext(oncConfig, ConditionContext(deviceConfig, deviceSchema),
                   deviceSchema)

----------------------------------------------------------------------------
(* internal/uci: command generation.  A command is the text sent to the   *)
(* device.                                                                 *)

StrUciSet == <<"uci", " ", "set", " ">>

StrUciAddList == <<"uci", " ", "add_list", " ">>

StrUciCommit == <<"uci", " ", "commit">>

StrReloadConfig == <<"reload_config">>

StrOpkgRemove == <<"opkg", " ", "remove", " ", "-", "-", "force", "-", "removal", "-", "of", "-", "dependent", "-", "packages", " ">>

StrOpkgUpdate == <<"opkg", " ", "update", ";">>

StrOpkgInstall == <<"opkg", " ", "install", " ">>

StrOpkgListInstalled == <<"opkg", " ", "list", "-", "installed">>

StrWhileDelete == <<"while", " ", "uci", " ", "-", "q", " ", "delete", " ">>

StrDeleteDone == <<"[", "0", "]", ";", " ", "do", " ", ":", ";", " ", "done">>

coerceValue(v) ==
    IF v.t = "bool" THEN (IF v.b THEN <<"1">> ELSE <<"0">>)
    ELSE IF v.t = "str" THEN v.s
    ELSE IF v.t = "num" THEN Itoa(v.n)
    ELSE Sprintv(v)

generatePropertyCommands(identifier, key, value) ==
    IF value.t = "list"
    THEN [i \in 1..Len(value.l) |->
            StrUciAddList \o identifier \o <<".">> \o key \o <<"=", SQ>>
                \o coerceValue(value.l[i]) \o <<SQ>>]
    ELSE << StrUciSet \o identifier \o <<".">> \o key \o <<"=", SQ>>
                \o coerceValue(value) \o <<SQ>> >>

(* The commands of one section: the create command, then the property     *)
(* commands in the order the loop over the section map visits the keys.   *)
sectionCommands(configKey, sectionKey, sectionMap) ==
    IF ~(KeyName \in DOMAIN sectionMap /\ sectionMap[KeyName].t = "str")
    THEN {<<>>}
    ELSE LET identifier == configKey \o <<".">> \o sectionMap[KeyName].s
             create == StrUciSet \o identifier \o <<"=">> \o sectionKey
             props == RangeOverMap(DOMAIN sectionMap \ {KeyName},
                         LAMBDA key : {generatePropertyCommands(identifier, key,
                                                                sectionMap[key])})
         IN  {<<create>> \o ps : ps \in props}

sectionListCommands(configKey, sectionKey, sections) ==
    SeqProduct([i \in 1..Len(sections) |->
                    sectionCommands(configKey, sectionKey, sections[i])])

GenerateCommands(openWrtConfig) ==
    RangeOverMap(DOMAIN openWrtConfig,
        LAMBDA configKey :
            RangeOverMap(DOMAIN openWrtConfig[configKey],
                LAMBDA sectionKey :
                    sectionListCommands(configKey, sectionKey,
                                        openWrtConfig[configKey][sectionKey])))

GetResetCommands(configSectionsToReset) ==
    RangeOverMap(DOMAIN configSectionsToReset,
        LAMBDA configKey :
            { [i \in 1..Len(configSectionsToReset[configKey]) |->
                  StrWhileDelete \o configKey \o <<".", "@">>
                      \o configSectionsToReset[configKey][i] \o StrDeleteDone] })

RECURSIVE JoinSpace(_)
JoinSpace(names) ==
    IF Len(names) = 0 THEN <<>>
    ELSE IF Len(names) = 1 THEN names[1]
    ELSE names[1] \o <<" ">> \o JoinSpace(Tail(names))

IsInstalled(name, installedPackages) ==
    \E i \in 1..Len(installedPackages) : installedPackages[i].Name = name

(* installedPackages is a Go slice built by append: it is nil exactly     *)
(* when it is empty.                                                      *)
filteredUninstall(packagesToUninstall, installedPackages) ==
    IF Len(installedPackages) > 0
    THEN SelectIdx(packagesToUninstall,
                   {i \in 1..Len(packagesToUninstall) :
                       IsInstalled(packagesToUninstall[i], installedPackages)}, 1)
    ELSE packagesToUninstall

filteredInstall(packagesToInstall, installedPackages) ==
    IF Len(installedPackages) > 0
    THEN SelectIdx(packagesToInstall,
                   {i \in 1..Len(packagesToInstall) :
                       ~IsInstalled(packagesToInstall[i].Name, installedPackages)}, 1)
    ELSE packagesToInstall

NamesOf(pkgs) == [i \in 1..Len(pkgs) |-> pkgs[i].Name]

(* The commands GetPackageCommands emits for the filtered lists.          *)
emitWithoutUpdate(toInstall, toUninstall) ==
    (IF Len(toUninstall) > 0
     THEN <<StrOpkgRemove \o JoinSpace(toUninstall)>> ELSE <<>>)
    \o (IF Len(toInstall) > 0
        THEN <<StrOpkgInstall \o JoinSpace(NamesOf(toInstall))>> ELSE <<>>)

emitPackageCommands(toInstall, toUninstall) ==
    (IF Len(toUninstall) > 0
     THEN <<StrOpkgRemove \o JoinSpace(toUninstall)>> ELSE <<>>)
    \o (IF Len(toInstall) > 0
        THEN <<StrOpkgUpdate, StrOpkgInstall \o JoinSpace(NamesOf(toInstall))>>
        ELSE <<>>)

GetPackageCommands(packagesToInstall, packagesToUninstall, installedPackages) ==
    emitPackageCommands(filteredInstall(packagesToInstall, installedPackages),
                        filteredUninstall(packagesToUninstall, installedPackages))

parseInstalledPackages(output) ==
    LET lines == Split(output, <<"\n">>)
        good == {i \in 1..Len(lines) : Len(Split(lines[i], <<" ", "-", " ">>)) = 2}
        kept == SelectIdx(lines, good, 1)
    IN  [i \in 1..Len(kept) |->
            [Name |-> Split(kept[i], <<" ", "-", " ">>)[1],
             Version |-> Split(kept[i], <<" ", "-", " ">>)[2]]]

GetDeviceScriptConfigFirst(state, sshClient) ==
    LET installedPackages ==
            IF ~sshClient.nil /\ ~sshClient.fails
            THEN parseInstalledPackages(sshClient.output)
            ELSE <<>>
        packageCommands == GetPackageCommands(state.PackagesToInstall,
                                              state.PackagesToUninstall,
                                              installedPackages)
    IN  { packageCommands \o uciCommands \o resetCommands
              \o <<StrUciCommit>> \o <<StrReloadConfig>> :
            resetCommands \in GetResetCommands(state.ConfigSectionsToReset),
            uciCommands \in GenerateCommands(state.Config) }

GetDeviceScriptNoReload(state, sshClient) ==
    LET installedPackages ==
            IF ~sshClient.nil /\ ~sshClient.fails
            THEN parseInstalledPackages(sshClient.output)
            ELSE <<>>
        packageCommands == GetPackageCommands(state.PackagesToInstall,
                                              state.PackagesToUninstall,
                                              installedPackages)
    IN  { packageCommands \o resetCommands \o uciCommands
              \o <<StrUciCommit>> :
            resetCommands \in GetResetCommands(state.ConfigSectionsToReset),
            uciCommands \in GenerateCommands(state.Config) }

GetDeviceScriptFailedListingAsEmpty(state, sshClient) ==
    LET installedPackages ==
            IF ~sshClient.nil /\ ~sshClient.fails
            THEN parseInstalledPackages(sshClient.output)
            ELSE <<>>
        packageCommands ==
            IF ~sshClient.nil /\ sshClient.fails
            THEN emitPackageCommands(state.PackagesToInstall, <<>>)
            ELSE GetPackageCommands(state.PackagesToInstall,
                                    state.PackagesToUninstall,
                                    installedPackages)
    IN  { packageCommands \o resetCommands \o uciCommands
              \o <<StrUciCommit>> \o <<StrReloadConfig>> :
            resetCommands \in GetResetCommands(state.ConfigSectionsToReset),
            uciCommands \in GenerateCommands(state.Config) }

(* sshClient is [nil, fails, output]: no executor, or an executor whose   *)
(* "opkg list-installed" fails or returns output.                         *)
GetDeviceScript(state, sshClient) ==
    LET installedPackages ==
            IF ~sshClient.nil /\ ~sshClient.fails
            THEN parseInstalledPackages(sshClient.output)
            ELSE <<>>
        packageCommands == GetPackageCommands(state.PackagesToInstall,
                                              state.PackagesToUninstall,
                                              installedPackages)
    IN  { packageCommands \o resetCommands \o uciCommands
              \o <<StrUciCommit>> \o <<StrReloadConfig>> :
            resetCommands \in GetResetCommands(state.ConfigSectionsToReset),
            uciCommands \in GenerateCommands(state.Config) }

----------------------------------------------------------------------------
(* Documents, devices and schemas the resolver and the script assembly    *)
(* are run on.                                                             *)

CondRoleR == StrTagDot \o StrRole \o <<" ", "=", "=", " ", "'", "r", "'">>

CondRoleA == StrTagDot \o StrRole \o <<" ", "=", "=", " ", "'", "a", "'">>

KeyNetwork == <<"network">>

KeySystem == <<"system">>

KeyInterface == <<"interface">>

KeyDevice == <<"device">>

KeyProto == <<"proto">>

KeyDNS == <<"dns">>

KeyHostnameField == <<"hostname">>

NameWan == <<"wan">>

NameLan == <<"lan">>

OptIf(cond) == IF cond = NilStr THEN EmptyObj ELSE KeyIf :> VStr(cond)

OptOverrides(ovs) == IF Len(ovs) = 0 THEN EmptyObj ELSE KeyOverrides :> VList(ovs)

Override(cond, data) == VObj((KeyIf :> VStr(cond)) @@ (KeyOverride :> VObj(data)))

DataDhcp == KeyProto :> VStr(<<"dhcp">>)

DataPppoe == KeyProto :> VStr(<<"pppoe">>)

DataName == KeyName :> VStr(NameLan)

DataIf == KeyIf :> VStr(CondRoleA)

Overrides ==
    { Override(CondRoleR, DataDhcp), Override(Star, DataPppoe),
      Override(Star, DataName), Override(CondRoleR, DataIf) }

OverrideLists == UNION { [1..n -> Overrides] : n \in 0..MaxOverrides }

RichSection(name, cond, ovs) ==
    VObj((KeyName :> VStr(name)) @@ OptIf(cond) @@ OptOverrides(ovs)
         @@ (KeyProto :> VStr(<<"static">>))
         @@ (KeyDNS :> VList(<<VStr(<<"9", ".", "9", ".", "9", ".", "9">>), VStr(<<"1", ".", "1", ".", "1", ".", "1">>)>>)))

PlainSections ==
    { VObj((KeyName :> VStr(NameLan)) @@ OptIf(cond) @@ (KeyProto :> VStr(<<"dhcp">>))) :
        cond \in {NilStr, CondRoleA} }

PlainLists == UNION { [1..n -> PlainSections] : n \in 0..(MaxSections - 1) }

SystemGroup ==
    VObj(KeySystem :> VList(<< VObj((KeyName :> VStr(KeySystem))
                                     @@ (KeyHostnameField :> VStr(<<"gw">>))) >>))

(* A network group of interface sections, the first with an override     *)
(* list, beside the system group.                                         *)
RichConfig(groupCond, name, cond, ovs, rest) ==
    (KeyNetwork :> VObj(OptIf(groupCond)
                        @@ (KeyInterface :>
                               VList(<<RichSection(name, cond, ovs)>> \o rest))))
    @@ (KeySystem :> SystemGroup)

PlainNetworkGroup ==
    VObj(KeyInterface :> VList(<<
        VObj((KeyName :> VStr(NameWan)) @@ (KeyProto :> VStr(<<"static">>))) >>))

(* A section need not have a name (the .name fields are optional).        *)
AnonymousNetworkGroup ==
    VObj(KeyInterface :> VList(<<
        VObj((KeyName :> VStr(NameWan)) @@ (KeyProto :> VStr(<<"static">>))),
        VObj(KeyProto :> VStr(<<"dhcp">>)) >>))

(* A group with two section types, the sections of one under a           *)
(* condition.                                                             *)
TwoTypeNetworkGroup ==
    VObj((KeyInterface :> VList(<<
             VObj((KeyName :> VStr(NameWan)) @@ (KeyProto :> VStr(<<"static">>))) >>))
         @@ (KeyDevice :> VList(<<
             VObj((KeyName :> VStr(<<"br">>)) @@ OptIf(CondRoleA)
                  @@ (<<"type">> :> VStr(<<"bridge">>))) >>)))

(* A group the configurator has no field for, under the reserved key.     *)
ExtraGroup ==
    VObj(<<"rule">> :> VList(<<
        VObj((KeyName :> VStr(NameWan)) @@ OptIf(CondRoleA)
             @@ (KeyProto :> VStr(<<"static">>))) >>))

SimpleConfigs ==
    { EmptyObj,
      KeySystem :> SystemGroup,
      (KeyNetwork :> PlainNetworkGroup) @@ (KeySystem :> SystemGroup),
      (KeyNetwork :> AnonymousNetworkGroup) @@ (KeySystem :> SystemGroup),
      (KeyExtra :> ExtraGroup) @@ (KeySystem :> SystemGroup),
      (KeyNetwork :> TwoTypeNetworkGroup) @@ (<<"dhcp">> :> VObj(EmptyObj)) }

Entry(cond, items) == [If |-> cond, items |-> items]

PkgSqm == <<"sqm">>

PkgFw4 == <<"fw4">>

SchemaSections ==
    (KeyNetwork :> <<KeyInterface, KeyDevice>>) @@ (KeySystem :> <<KeySystem>>)

NoClient == [nil |-> TRUE, fails |-> FALSE, output |-> <<>>]

Client(fails, output) == [nil |-> FALSE, fails |-> fails, output |-> output]

(* Package profiles, reset exemptions, schema sections and executor.      *)
NoPlan ==
    [profiles |-> <<>>, notReset |-> <<>>, sections |-> EmptyObj, client |-> NoClient]

Plans ==
    { NoPlan,
      [profiles |-> <<Entry(NilStr, <<PkgSqm, <<"-">> \o PkgFw4>>)>>,
       notReset |-> <<Entry(NilStr, <<KeyNetwork \o <<".">> \o KeyDevice>>)>>,
       sections |-> SchemaSections, client |-> NoClient],
      [profiles |-> <<Entry(NilStr, <<PkgSqm, <<"-">> \o PkgFw4>>)>>,
       notReset |-> <<>>,
       sections |-> SchemaSections,
       client |-> Client(FALSE, PkgFw4 \o <<" ", "-", " ", "1", "\n">>)],
      [profiles |-> <<Entry(NilStr, <<PkgSqm>>)>>,
       notReset |-> <<>>,
       sections |-> SchemaSections,
       client |-> Client(FALSE, PkgSqm \o <<" ", "-", " ", "1", "\n">>)] }

(* Package profiles: each lists one of these token lists under a          *)
(* condition; the executor's package listing is one of Listings.          *)
PkgLuci == <<"luci">>

TokenLists ==
    { <<PkgSqm>>,
      <<<<"-">> \o PkgFw4>>,
      <<PkgFw4>>,
      <<PkgLuci \o <<"@", "1", "@", "2">>, <<"-">> \o PkgSqm>>,
      <<PkgLuci \o <<"@", "1">>>> }

Executors ==
    { NoClient,
      Client(TRUE, <<>>),
      Client(FALSE, <<>>),
      Client(FALSE, PkgFw4 \o <<" ", "-", " ", "1", "\n">>),
      Client(FALSE, PkgSqm \o <<" ", "-", " ", "1", "\n">>
                    \o PkgLuci \o <<" ", "-", " ", "2", "\n">>) }

PackagePlan(profiles, client) ==
    [profiles |-> profiles, notReset |-> <<>>, sections |-> EmptyObj,
     client |-> client]

(* Reset exemptions: each entry lists one of these lists under a          *)
(* condition.                                                             *)
ExemptionLists ==
    { <<KeyNetwork \o <<".", "*">>>>,
      <<KeyNetwork \o <<".">> \o KeyDevice>>,
      <<KeyNetwork \o <<".", "*">>, KeyNetwork \o <<".">> \o KeyInterface>>,
      <<KeyNetwork \o <<".">> \o KeyInterface>>,
      <<KeySystem \o <<".">> \o KeySystem>> }

ResetPlan(notReset) ==
    [profiles |-> <<>>, notReset |-> notReset, sections |-> SchemaSections,
     client |-> NoClient]

DeviceConfigs ==
    { [Hostname |-> <<"gw">>, IPAddr |-> <<"1", "0", ".", "0", ".", "0", ".", "1">>, ModelID |-> <<"erx">>, Tags |-> tags] :
        tags \in {NoTags, RoleTag(VStr(<<"r">>)), RoleTag(VStr(<<"a">>))} }

Document(cfg, plan) ==
    [Config |-> cfg, PackageProfiles |-> plan.profiles,
     ConfigsToNotReset |-> plan.notReset]

Schema(plan) ==
    [SwConfig |-> FALSE, Version |-> <<"2", "3">>, ConfigSections |-> plan.sections]

ResInit ==
    /\ CondIdle
    /\ ProvIdle
    /\ MockIdle
    /\ \/ \E groupCond \in {NilStr, CondRoleA}, name \in {NameWan, NameLan},
              cond \in {NilStr, CondRoleR}, ovs \in OverrideLists,
              rest \in PlainLists :
              /\ docConfig = Document(RichConfig(groupCond, name, cond, ovs, rest),
                                      NoPlan)
              /\ devSchema = Schema(NoPlan)
              /\ executor = NoPlan.client
       \/ \E cfg \in SimpleConfigs, plan \in Plans :
              /\ docConfig = Document(cfg, plan)
              /\ devSchema = Schema(plan)
              /\ executor = plan.client
       \/ \E n \in 0..MaxProfiles :
             \E conds \in [1..n -> {NilStr, CondRoleR}],
                items \in [1..n -> TokenLists], client \in Executors :
              /\ docConfig =
                     Document(EmptyObj,
                              PackagePlan([i \in 1..n |-> Entry(conds[i], items[i])],
                                          client))
              /\ devSchema = Schema(NoPlan)
              /\ executor = client
       \/ \E n \in 0..MaxExemptions :
             \E conds \in [1..n -> {NilStr, CondRoleR}],
                items \in [1..n -> ExemptionLists] :
              /\ docConfig =
                     Document(EmptyObj,
                              ResetPlan([i \in 1..n |-> Entry(conds[i], items[i])]))
              /\ devSchema = Schema(ResetPlan(<<>>))
              /\ executor = NoClient
    /\ docDevice \in DeviceConfigs
    /\ targetState = StatePanic(ErrNone)
    /\ script = <<>>
    /\ resPc = "start"

GetOpenWrtStateStep ==
    /\ resPc = "start"
    /\ targetState' \in GetOpenWrtState(docConfig, docDevice, devSchema)
    /\ resPc' = IF targetState'.err = ErrNone THEN "resolved" ELSE "panic"
    /\ UNCHANGED <<docConfig, docDevice, devSchema, executor, script,
                   mockVars, condVars, provVars>>

GetDeviceScriptStep ==
    /\ resPc = "resolved"
    /\ script' \in GetDeviceScript(targetState, executor)
    /\ resPc' = "scripted"
    /\ UNCHANGED <<docConfig, docDevice, devSchema, executor, targetState,
                   mockVars, condVars, provVars>>

ResNext == GetOpenWrtStateStep \/ GetDeviceScriptStep

SpecResolve == ResInit /\ [][ResNext]_vars

----------------------------------------------------------------------------
(* internal/provision: ProvisionConfig over a batch of devices.  What the  *)
(* network and the devices answer is chosen when the program asks.         *)

StrCatBoard == <<"cat", " ", "/", "etc", "/", "board", ".", "json">>

StrUciRevert == <<"uci", " ", "revert", " ">>

RevertConfigs == <<"system", "network", "firewall", "dhcp", "wireless", "dropbear">>

getRevertCommandsNetworkOnly == <<StrUciRevert \o <<"network">>>>

getRevertCommands ==
    [i \in 1..Len(RevertConfigs) |-> StrUciRevert \o <<RevertConfigs[i]>>]

RetRunning == [err |-> "running", host |-> <<>>, cmd |-> <<>>]

RetOk == [err |-> "none", host |-> <<>>, cmd |-> <<>>]

RetError(e, host, cmd) == [err |-> e, host |-> host, cmd |-> cmd]

Sent(host, cmd) == [host |-> host, cmd |-> cmd]

(* Enabled is a *bool: absent, true or false.                             *)
IsEnabled(dev) == dev.Enabled = "nil" \/ dev.Enabled = "true"

(* What GetDeviceSchema reads from a device that answers.                 *)
DiscoveredSchema(dev) ==
    [SwConfig |-> FALSE, Version |-> <<"2", dev.Hostname[Len(dev.Hostname)]>>,
     ConfigSections |-> (KeyNetwork :> <<KeyInterface>>)]

DeviceKinds == {"tagged", "untagged", "noaddr", "disabled", "noprov"}

MkDevice(kind, i) ==
    [Hostname |-> <<"gw", "-">> \o Itoa(i),
     IPAddr |-> IF kind = "noaddr" THEN <<>>
                ELSE <<"1", "0", ".", "0", ".", "0", ".">> \o Itoa(i),
     ModelID |-> <<"erx">>,
     Tags |-> IF kind = "untagged" THEN NoTags ELSE RoleTag(VStr(<<"r">>)),
     Enabled |-> IF kind = "disabled" THEN "false"
                 ELSE IF kind = "tagged" THEN "nil" ELSE "true",
     HasProvisioningConfig |-> kind # "noprov"]

(* One interface section that only devices with role r get.               *)
ProvNetworkGroup ==
    VObj(KeyInterface :> VList(<<
        VObj((KeyName :> VStr(NameLan)) @@ (KeyIf :> VStr(CondRoleR))
             @@ (KeyProto :> VStr(<<"dhcp">>))) >>))

ProvDocument(devices) ==
    [Config |-> (KeyNetwork :> ProvNetworkGroup), PackageProfiles |-> <<>>,
     ConfigsToNotReset |-> <<>>, Devices |-> devices]

ProvInit ==
    /\ CondIdle
    /\ ResIdle
    /\ \E n \in 1..MaxDevices : \E kinds \in [1..n -> DeviceKinds] :
          provConfig = ProvDocument([i \in 1..n |-> MkDevice(kinds[i], i)])
    /\ provPc = "start"
    /\ enabledDevices = <<>>
    /\ deviceSchemas = <<>>
    /\ devIdx = 0
    /\ devState = StatePanic(ErrNone)
    /\ commands = <<>>
    /\ cmdIdx = 0
    /\ revertIdx = 0
    /\ revertFailed = FALSE
    /\ sentLog = <<>>
    /\ schemaLog = <<>>
    /\ resolvedLog = <<>>
    /\ provRet = RetRunning

(* ProvisionConfig: the loop that collects the enabled devices.           *)
SelectEnabledDevices ==
    /\ provPc = "start"
    /\ enabledDevices' = SelectSeq(provConfig.Devices, IsEnabled)
    /\ devIdx' = 1
    /\ provPc' = "schemas"
    /\ UNCHANGED <<provConfig, deviceSchemas, devState, commands, cmdIdx,
                   revertIdx, revertFailed, sentLog, schemaLog, resolvedLog,
                   provRet, condVars, resVars>>

(* ProvisionConfig: one iteration of the schema loop.  GetDeviceSchema    *)
(* fails without provisioning config and when the device does not answer; *)
(* its error is returned.                                                 *)
DiscoverSchema ==
    /\ provPc = "schemas"
    /\ devIdx <= Len(enabledDevices)
    /\ \E answers \in BOOLEAN :
          IF enabledDevices[devIdx].HasProvisioningConfig /\ answers
          THEN /\ deviceSchemas' =
                     (enabledDevices[devIdx].ModelID :>
                          DiscoveredSchema(enabledDevices[devIdx]))
                     @@ deviceSchemas
               /\ devIdx' = devIdx + 1
               /\ UNCHANGED <<provPc, provRet>>
          ELSE /\ provRet' = RetError("SchemaDiscoveryFailed",
                                      enabledDevices[devIdx].Hostname, <<>>)
               /\ provPc' = "done"
               /\ UNCHANGED <<deviceSchemas, devIdx>>
    /\ schemaLog' = Append(schemaLog, enabledDevices[devIdx].Hostname)
    /\ UNCHANGED <<provConfig, enabledDevices, devState, commands, cmdIdx,
                   revertIdx, revertFailed, sentLog, resolvedLog,
                   condVars, resVars>>

SchemasDiscovered ==
    /\ provPc = "schemas"
    /\ devIdx > Len(enabledDevices)
    /\ devIdx' = 1
    /\ provPc' = "devices"
    /\ UNCHANGED <<provConfig, enabledDevices, deviceSchemas, devState, commands,
                   cmdIdx, revertIdx, revertFailed, sentLog, schemaLog,
                   resolvedLog, provRet, condVars, resVars>>

Skipped(dev) == dev.IPAddr = <<>> \/ ~dev.HasProvisioningConfig

(* ProvisionConfig: the provisioning loop skips a device without address  *)
(* or provisioning config.                                                *)
SkipDevice ==
    /\ provPc = "devices"
    /\ devIdx <= Len(enabledDevices)
    /\ Skipped(enabledDevices[devIdx])
    /\ devIdx' = devIdx + 1
    /\ UNCHANGED <<provConfig, provPc, enabledDevices, deviceSchemas, devState,
                   commands, cmdIdx, revertIdx, revertFailed, sentLog, schemaLog,
                   resolvedLog, provRet, condVars, resVars>>

(* ProvisionConfig: the schema lookup and GetOpenWrtState for the next    *)
(* device.  A panic of the condition evaluator is not recovered and ends  *)
(* the process.                                                           *)
ResolveDevice ==
    /\ provPc = "devices"
    /\ devIdx <= Len(enabledDevices)
    /\ ~Skipped(enabledDevices[devIdx])
    /\ IF enabledDevices[devIdx].ModelID \notin DOMAIN deviceSchemas
       THEN /\ provRet' = RetError("SchemaNotFound",
                                   enabledDevices[devIdx].Hostname, <<>>)
            /\ provPc' = "done"
            /\ UNCHANGED <<devState, resolvedLog>>
       ELSE /\ devState' \in
                  GetOpenWrtState(provConfig, enabledDevices[devIdx],
                                  deviceSchemas[enabledDevices[devIdx].ModelID])
            /\ resolvedLog' = Append(resolvedLog, enabledDevices[devIdx].Hostname)
            /\ IF devState'.err # ErrNone
               THEN /\ provRet' = RetError(devState'.err,
                                           enabledDevices[devIdx].Hostname, <<>>)
                    /\ provPc' = "crashed"
               ELSE /\ provPc' = "connect"
                    /\ UNCHANGED provRet
    /\ UNCHANGED <<provConfig, enabledDevices, deviceSchemas, devIdx, commands,
                   cmdIdx, revertIdx, revertFailed, sentLog, schemaLog,
                   condVars, resVars>>

(* The model ids a board.json can hold.                                   *)
BoardModels == {<<"erx">>, <<"mr">>}

(* verifyDevice: board.json cannot be read or parsed, or holds the model  *)
(* id found.                                                              *)
verifyDeviceAnyModel(readable, found, expectedModelID) ==
    IF ~readable THEN "VerifyFailed"
    ELSE ErrNone

verifyDevice(readable, found, expectedModelID) ==
    IF ~readable THEN "VerifyFailed"
    ELSE IF found # expectedModelID THEN "ModelMismatch"
    ELSE ErrNone

(* provisionDevice: ssh.Connect and verifyDevice.  The connection can be  *)
(* refused, board.json unreadable, or the model id another one.           *)
ConnectAndVerify ==
    /\ provPc = "connect"
    /\ \E connected, readable \in BOOLEAN, found \in BoardModels :
          /\ sentLog' = IF ~connected THEN sentLog
                        ELSE Append(sentLog, Sent(enabledDevices[devIdx].Hostname,
                                                  StrCatBoard))
          /\ IF connected /\ verifyDevice(readable, found,
                                          enabledDevices[devIdx].ModelID) = ErrNone
             THEN provPc' = "script" /\ UNCHANGED provRet
             ELSE /\ provRet' = RetError(IF ~connected
                                         THEN "ConnectFailed"
                                         ELSE verifyDevice(readable, found,
                                                  enabledDevices[devIdx].ModelID),
                                         enabledDevices[devIdx].Hostname, <<>>)
                  /\ provPc' = "done"
    /\ UNCHANGED <<provConfig, enabledDevices, deviceSchemas, devIdx, devState,
                   commands, cmdIdx, revertIdx, revertFailed, schemaLog,
                   resolvedLog, condVars, resVars>>

(* provisionDevice: GetDeviceScript with the connected client, whose      *)
(* package listing can fail.                                              *)
BuildScript ==
    /\ provPc = "script"
    /\ \E fails \in BOOLEAN :
          commands' \in GetDeviceScript(devState, Client(fails, <<>>))
    /\ sentLog' = Append(sentLog, Sent(enabledDevices[devIdx].Hostname,
                                       StrOpkgListInstalled))
    /\ cmdIdx' = 1
    /\ provPc' = "executing"
    /\ UNCHANGED <<provConfig, enabledDevices, deviceSchemas, devIdx, devState,
                   revertIdx, revertFailed, schemaLog, resolvedLog, provRet,
                   condVars, resVars>>

(* provisionDevice: one iteration of the loop over commands.              *)
ExecuteCommand ==
    /\ provPc = "executing"
    /\ cmdIdx <= Len(commands)
    /\ sentLog' = Append(sentLog, Sent(enabledDevices[devIdx].Hostname,
                                       commands[cmdIdx]))
    /\ \E ok \in BOOLEAN :
          IF ok
          THEN cmdIdx' = cmdIdx + 1 /\ UNCHANGED <<provPc, revertIdx>>
          ELSE provPc' = "reverting" /\ revertIdx' = 1 /\ UNCHANGED cmdIdx
    /\ UNCHANGED <<provConfig, enabledDevices, deviceSchemas, devIdx, devState,
                   commands, revertFailed, schemaLog, resolvedLog, provRet,
                   condVars, resVars>>

(* provisionDevice: one iteration of the loop over revertCommands; the    *)
(* result of the command is dropped.                                      *)
RevertCommand ==
    /\ provPc = "reverting"
    /\ revertIdx <= Len(getRevertCommands)
    /\ sentLog' = Append(sentLog, Sent(enabledDevices[devIdx].Hostname,
                                       getRevertCommands[revertIdx]))
    /\ \E ok \in BOOLEAN : revertFailed' = (revertFailed \/ ~ok)
    /\ revertIdx' = revertIdx + 1
    /\ UNCHANGED <<provConfig, provPc, enabledDevices, deviceSchemas, devIdx,
                   devState, commands, cmdIdx, schemaLog, resolvedLog, provRet,
                   condVars, resVars>>

(* provisionDevice returns the error that names the command, and          *)
(* ProvisionConfig returns it.                                            *)
ReturnCommandFailure ==
    /\ provPc = "reverting"
    /\ revertIdx > Len(getRevertCommands)
    /\ provRet' = RetError("RemoteCommandFailed",
                           enabledDevices[devIdx].Hostname, commands[cmdIdx])
    /\ provPc' = "done"
    /\ UNCHANGED <<provConfig, enabledDevices, deviceSchemas, devIdx, devState,
                   commands, cmdIdx, revertIdx, revertFailed, sentLog, schemaLog,
                   resolvedLog, condVars, resVars>>

(* provisionDevice returns nil: the provisioning loop goes on.            *)
DeviceProvisioned ==
    /\ provPc = "executing"
    /\ cmdIdx > Len(commands)
    /\ devIdx' = devIdx + 1
    /\ provPc' = "devices"
    /\ UNCHANGED <<provConfig, enabledDevices, deviceSchemas, devState, commands,
                   cmdIdx, revertIdx, revertFailed, sentLog, schemaLog,
                   resolvedLog, provRet, condVars, resVars>>

AllProvisioned ==
    /\ provPc = "devices"
    /\ devIdx > Len(enabledDevices)
    /\ provRet' = RetOk
    /\ provPc' = "done"
    /\ UNCHANGED <<provConfig, enabledDevices, deviceSchemas, devIdx, devState,
                   commands, cmdIdx, revertIdx, revertFailed, sentLog, schemaLog,
                   resolvedLog, condVars, resVars>>

ProvNext ==
    \/ SelectEnabledDevices
    \/ DiscoverSchema
    \/ SchemasDiscovered
    \/ SkipDevice
    \/ ResolveDevice
    \/ ConnectAndVerify
    \/ BuildScript
    \/ ExecuteCommand
    \/ RevertCommand
    \/ ReturnCommandFailure
    \/ DeviceProvisioned
    \/ AllProvisioned

SpecProv == ProvInit /\ [][ProvNext]_vars

----------------------------------------------------------------------------
(* internal/ssh: MockClient, the simulated device of the tests.  OnExecute *)
(* is "nil" or names a callback: one that returns no error, one that      *)
(* returns an error.                                                       *)

StrType == <<"_type">>

StrOpkgRemovePrefix == <<"opkg", " ", "remove", " ">>

MockError == "MockCommandFailed"

CallbackError == "CallbackFailed"

getFactoryPackages ==
    << <<"base", "-", "files">>, <<"busybox">>, <<"dnsmasq">>, <<"dropbear">>,
       <<"firewall4">>,
       <<"kmod", "-", "gpio", "-", "button", "-", "hotplug">>, <<"libc">>,
       <<"logd">>, <<"mtd">>, <<"netifd">>, <<"opkg">>, <<"ppp">>,
       <<"ppp", "-", "mod", "-", "pppoe">>, <<"uci">>,
       <<"uclient", "-", "fetch">>, <<"urandom", "-", "seed">>, <<"urngd">> >>

NewMockClient(modelID) ==
    [ModelID |-> modelID, InstalledPkgs |-> getFactoryPackages,
     ExecutedCmds |-> <<>>, UCIState |-> <<>>, FailOnCommand |-> <<>>,
     OnExecute |-> "nil"]

GetUCIValue(m, config, section, key) ==
    IF /\ config \in DOMAIN m.UCIState
       /\ section \in DOMAIN m.UCIState[config]
       /\ key \in DOMAIN m.UCIState[config][section]
    THEN m.UCIState[config][section][key]
    ELSE <<>>

(* m.UCIState[config][section][key] = value, the maps made when missing.  *)
setUCIValue(state, config, section, key, value) ==
    LET configMap == IF config \in DOMAIN state THEN state[config] ELSE <<>>
        sectionMap == IF section \in DOMAIN configMap THEN configMap[section]
                      ELSE <<>>
    IN  (config :> ((section :> ((key :> value) @@ sectionMap)) @@ configMap))
            @@ state

(* strings.Trim: the leading and trailing symbols of the cutset removed.  *)
RECURSIVE Trim(_, _)
Trim(s, cutset) ==
    IF Len(s) > 0 /\ Head(s) \in cutset THEN Trim(Tail(s), cutset)
    ELSE IF Len(s) > 0 /\ s[Len(s)] \in cutset
    THEN Trim(SubSeq(s, 1, Len(s) - 1), cutset)
    ELSE s

(* strings.Fields: the maximal runs of symbols that are not white space.  *)
RECURSIVE Fields(_)
Fields(s) ==
    IF Len(TrimLeft(s)) = 0 THEN <<>>
    ELSE LET t == TrimLeft(s)
             spaces == {i \in 1..Len(t) : IsSpace(t[i])}
             stop == IF spaces = {} THEN Len(t) + 1
                     ELSE CHOOSE i \in spaces : \A j \in spaces : i <= j
         IN  <<SubSeq(t, 1, stop - 1)>> \o Fields(SubSeq(t, stop, Len(t)))

(* strings.SplitN(command, prefix, 2)[1] for a command that holds prefix. *)
AfterFirst(command, prefix) ==
    SubSeq(command, FindSep(command, prefix, 1) + Len(prefix), Len(command))

(* handleUCISet once the text after "uci set " is split at its first "=". *)
assignUCI(m, dotParts, right) ==
    IF Len(dotParts) < 2 THEN m
    ELSE [m EXCEPT !.UCIState =
              setUCIValue(@, dotParts[1], dotParts[2],
                          IF Len(dotParts) = 2 THEN StrType ELSE dotParts[3],
                          right)]

handleUCISetPart(m, setPart, eqIdx) ==
    IF eqIdx = 0 THEN m
    ELSE assignUCI(m, Split(SubSeq(setPart, 1, eqIdx - 1), <<".">>),
                   Trim(SubSeq(setPart, eqIdx + 1, Len(setPart)), {SQ, DQ}))

handleUCISet(m, command) ==
    handleUCISetPart(m, TrimSpace(AfterFirst(command, StrUciSet)),
                     FindSep(TrimSpace(AfterFirst(command, StrUciSet)), <<"=">>, 1))

appendUCI(m, dotParts, right) ==
    IF Len(dotParts) # 3 THEN m
    ELSE [m EXCEPT !.UCIState =
              setUCIValue(@, dotParts[1], dotParts[2], dotParts[3],
                          IF GetUCIValue(m, dotParts[1], dotParts[2], dotParts[3]) = <<>>
                          THEN right
                          ELSE GetUCIValue(m, dotParts[1], dotParts[2], dotParts[3])
                                   \o <<" ">> \o right)]

handleUCIAddListPart(m, addPart, eqIdx) ==
    IF eqIdx = 0 THEN m
    ELSE appendUCI(m, Split(SubSeq(addPart, 1, eqIdx - 1), <<".">>),
                   Trim(SubSeq(addPart, eqIdx + 1, Len(addPart)), {SQ, DQ}))

handleUCIAddList(m, command) ==
    handleUCIAddListPart(m, TrimSpace(AfterFirst(command, StrUciAddList)),
                         FindSep(TrimSpace(AfterFirst(command, StrUciAddList)),
                                 <<"=">>, 1))

(* handleOpkgRemove: parts are the fields of the command; the package     *)
(* names start at the first field after the second that is not a flag.    *)
removePackages(m, parts) ==
    IF Len(parts) < 3 THEN m
    ELSE LET named == {i \in 3..Len(parts) : ~HasPrefix(parts[i], <<"-">>)}
             startIdx == IF named = {} THEN 3
                         ELSE CHOOSE i \in named : \A j \in named : i <= j
             packagesToRemove == Range(SubSeq(parts, startIdx, Len(parts)))
         IN  [m EXCEPT !.InstalledPkgs =
                  SelectSeq(@, LAMBDA installed : installed \notin packagesToRemove)]

handleOpkgRemove(m, command) == removePackages(m, Fields(command))

RECURSIVE installPackages(_, _, _)
installPackages(installed, parts, i) ==
    IF i > Len(parts) THEN installed
    ELSE IF parts[i] \in Range(installed)
    THEN installPackages(installed, parts, i + 1)
    ELSE installPackages(Append(installed, parts[i]), parts, i + 1)

handleOpkgInstall(m, command) ==
    IF Len(Fields(command)) < 3 THEN m
    ELSE [m EXCEPT !.InstalledPkgs = installPackages(@, Fields(command), 3)]

getInstalledPackages(m) ==
    Flatten([i \in 1..Len(m.InstalledPkgs) |->
                m.InstalledPkgs[i] \o <<" ", "-", " ", "1", ".", "0", ".", "0", "\n">>])

getBoardJSON(m) ==
    <<"{", DQ, "model", DQ, ":", "{", DQ, "id", DQ, ":", DQ>> \o m.ModelID
        \o <<DQ, ",", DQ, "name", DQ, ":", DQ, "Mock", " ", "Device", DQ, "}", ",",
             DQ, "network", DQ, ":", "{", DQ, "lan", DQ, ":", "{", DQ, "ports", DQ,
             ":", "[", DQ, "lan1", DQ, ",", DQ, "lan2", DQ, ",", DQ, "lan3", DQ,
             ",", DQ, "lan4", DQ, "]", "}", ",", DQ, "wan", DQ, ":", "{", DQ,
             "device", DQ, ":", DQ, "eth0", DQ, "}", "}", "}">>

(* What Execute leaves and returns: the client, the output, the error and *)
(* whether the OnExecute callback was called.                             *)
Executed(m, out, err, called) == [m |-> m, out |-> out, err |-> err, called |-> called]

(* The built-in handling of a command; uci commit, reload_config, opkg    *)
(* update, the delete loops and unknown commands return "" and no error.  *)
handleCommand(m, command) ==
    IF command = StrCatBoard THEN Executed(m, getBoardJSON(m), ErrNone, FALSE)
    ELSE IF command = StrOpkgListInstalled
    THEN Executed(m, getInstalledPackages(m), ErrNone, FALSE)
    ELSE IF HasPrefix(command, StrUciSet)
    THEN Executed(handleUCISet(m, command), <<>>, ErrNone, FALSE)
    ELSE IF HasPrefix(command, StrUciAddList)
    THEN Executed(handleUCIAddList(m, command), <<>>, ErrNone, FALSE)
    ELSE IF HasPrefix(command, StrUciCommit) \/ command = StrReloadConfig
    THEN Executed(m, <<>>, ErrNone, FALSE)
    ELSE IF HasPrefix(command, StrOpkgRemovePrefix)
    THEN Executed(handleOpkgRemove(m, command), <<>>, ErrNone, FALSE)
    ELSE IF HasPrefix(command, StrOpkgInstall)
    THEN Executed(handleOpkgInstall(m, command), <<>>, ErrNone, FALSE)
    ELSE Executed(m, <<>>, ErrNone, FALSE)

(* Execute with the check of FailOnCommand made before the command is     *)
(* recorded.                                                              *)
ExecuteFailsUnrecorded(m, command) ==
    IF m.FailOnCommand # <<>> /\ Contains(command, m.FailOnCommand)
    THEN Executed(m, <<>>, MockError, FALSE)
    ELSE IF m.OnExecute # "nil"
    THEN Executed([m EXCEPT !.ExecutedCmds = Append(@, command)], <<>>,
                  IF m.OnExecute = "err" THEN CallbackError ELSE ErrNone, TRUE)
    ELSE handleCommand([m EXCEPT !.ExecutedCmds = Append(@, command)], command)

Execute(m, command) ==
    IF m.FailOnCommand # <<>> /\ Contains(command, m.FailOnCommand)
    THEN Executed([m EXCEPT !.ExecutedCmds = Append(@, command)], <<>>,
                  MockError, FALSE)
    ELSE IF m.OnExecute # "nil"
    THEN Executed([m EXCEPT !.ExecutedCmds = Append(@, command)], <<>>,
                  IF m.OnExecute = "err" THEN CallbackError ELSE ErrNone, TRUE)
    ELSE handleCommand([m EXCEPT !.ExecutedCmds = Append(@, command)], command)

(* The loop of the tests that executes a script on the mock, the errors   *)
(* dropped.                                                               *)
RECURSIVE executeAll(_, _, _)
executeAll(m, cmds, i) ==
    IF i > Len(cmds) THEN m
    ELSE executeAll(Execute(m, cmds[i]).m, cmds, i + 1)

----------------------------------------------------------------------------
(* Calls of Execute on a mock whose FailOnCommand and OnExecute the test   *)
(* has set.                                                                *)

MaxCalls == 3

MockCommands ==
    { StrUciSet \o <<"network", ".", "wan", "=", "interface">>,
      StrUciSet \o <<"network", ".", "wan", ".", "proto", "=", SQ, "static", SQ>>,
      StrUciAddList \o <<"network", ".", "wan", ".", "dns", "=", SQ, "9", ".", "9", SQ>>,
      StrOpkgRemove \o <<"dnsmasq">>,
      StrOpkgInstall \o <<"sqm">>,
      StrOpkgListInstalled,
      StrUciCommit }

FailOnCommands == {<<>>, <<"proto">>, <<"opkg", " ">>, StrUciCommit}

MockInit ==
    /\ CondIdle
    /\ ResolveIdle
    /\ ProvIdle
    /\ \E failOn \in FailOnCommands, onExecute \in {"nil", "ok", "err"} :
          mock = [NewMockClient(<<"erx">>) EXCEPT !.FailOnCommand = failOn,
                                                  !.OnExecute = onExecute]
    /\ mockCalls = <<>>
    /\ hookCalls = <<>>
    /\ mockOut = <<>>
    /\ mockErr = ErrNone
    /\ mockPc = "ready"

ExecuteStep ==
    /\ mockPc = "ready"
    /\ Len(mockCalls) < MaxCalls
    /\ \E command \in MockCommands :
          /\ mock' = Execute(mock, command).m
          /\ mockOut' = Execute(mock, command).out
          /\ mockErr' = Execute(mock, command).err
          /\ hookCalls' = IF Execute(mock, command).called
                          THEN Append(hookCalls, command) ELSE hookCalls
          /\ mockCalls' = Append(mockCalls, command)
    /\ UNCHANGED <<mockPc, docConfig, docDevice, devSchema, executor, targetState,
                   script, resPc, condVars, provVars>>

MockNext == ExecuteStep

SpecMock == MockInit /\ [][MockNext]_vars

----------------------------------------------------------------------------
(* The provisioning tests: the document is resolved for a device, the     *)
(* script is assembled with a fresh mock as executor and then executed on *)
(* that mock.                                                              *)

RunInit == ResInit /\ executor = NoClient

RunScriptOnMock ==
    /\ resPc = "resolved"
    /\ script' \in
          GetDeviceScript(targetState,
              Client(FALSE, Execute(NewMockClient(docDevice.ModelID),
                                    StrOpkgListInstalled).out))
    /\ mock' = executeAll(Execute(NewMockClient(docDevice.ModelID),
                                  StrOpkgListInstalled).m, script', 1)
    /\ mockCalls' = <<StrOpkgListInstalled>> \o script'
    /\ mockPc' = "ran"
    /\ resPc' = "executed"
    /\ UNCHANGED <<hookCalls, mockOut, mockErr, docConfig, docDevice, devSchema,
                   executor, targetState, condVars, provVars>>

RunNext == GetOpenWrtStateStep \/ RunScriptOnMock

SpecRun == RunInit /\ [][RunNext]_vars

----------------------------------------------------------------------------
(* The document, the resolved tree and the script of the device being     *)
(* resolved, as the claims about resolution speak of them.                *)

ResCtx == ConditionContext(docDevice, devSchema)

Resolved == resPc \in {"resolved", "scripted"}

(* GetDeviceScript leaves the resolved state as it is, so what holds of   *)
(* the Resolved Tree when GetOpenWrtState returns holds of it for good.   *)
JustResolved == resPc = "resolved"

Scripted == resPc = "scripted"

CondIs(obj, b) == Evaluate(ConditionOf(obj), ResCtx) = CondOk(b)

(* The groups of the document that conditions and overrides apply to:     *)
(* every top-level key but the reserved one.                              *)
DocGroups == DOMAIN docConfig.Config \ {KeyExtra}

DocGroup(g) == docConfig.Config[g].o

DocSectionKeys(g) == {k \in DOMAIN DocGroup(g) : ~HasPrefix(k, <<".">>)}

DocSections(g, k) == DocGroup(g)[k].l

Survivors(g, k) ==
    SelectIdx(DocSections(g, k),
              {i \in 1..Len(DocSections(g, k)) : CondIs(DocSections(g, k)[i].o, TRUE)}, 1)

ResolvedList(g, k) ==
    IF g \in DOMAIN targetState.Config /\ k \in DOMAIN targetState.Config[g]
    THEN targetState.Config[g][k]
    ELSE <<>>

ResolvedNames(g) ==
    IF g \in DOMAIN targetState.Config
    THEN UNION { { targetState.Config[g][k][i][KeyName].s :
                     i \in 1..Len(targetState.Config[g][k]) } :
                 k \in DOMAIN targetState.Config[g] }
    ELSE {}

(* Group and name of the sections dropped by a false condition: their own *)
(* or their group's.                                                      *)
DroppedSections ==
    UNION { UNION { { <<g, DocSections(g, k)[i].o[KeyName].s>> :
                        i \in {j \in 1..Len(DocSections(g, k)) :
                                  \/ CondIs(DocGroup(g), FALSE)
                                  \/ /\ CondIs(DocGroup(g), TRUE)
                                     /\ CondIs(DocSections(g, k)[j].o, FALSE)} } :
                    k \in DocSectionKeys(g) } :
            g \in DocGroups }

References(cmd, g, name) ==
    \/ HasPrefix(cmd, StrUciSet \o g \o <<".">> \o name \o <<"=">>)
    \/ HasPrefix(cmd, StrUciSet \o g \o <<".">> \o name \o <<".">>)
    \/ HasPrefix(cmd, StrUciAddList \o g \o <<".">> \o name \o <<".">>)

DroppedAreAbsent ==
    \A g \in DocGroups :
        /\ CondIs(DocGroup(g), FALSE) => g \notin DOMAIN targetState.Config
        /\ CondIs(DocGroup(g), TRUE) =>
              \A k \in DocSectionKeys(g) :
                  Len(ResolvedList(g, k)) = Len(Survivors(g, k))

(* C4 as stated: a group or section whose .if is false is absent from the *)
(* Resolved Tree with everything beneath it, and the script has no        *)
(* command that references the name of such a section.                    *)
C4_DroppedNameNeverReferenced ==
    /\ JustResolved => DroppedAreAbsent
    /\ Scripted =>
          \A d \in DroppedSections : \A i \in 1..Len(script) :
              ~References(script[i], d[1], d[2])

(* C4 amended: a group or section whose .if is false is absent from the   *)
(* Resolved Tree with everything beneath it, and the script has no        *)
(* command that references the name of such a section unless a surviving  *)
(* section of the same group resolves to that name.                       *)
C4_DroppedNodesAbsent ==
    /\ JustResolved => DroppedAreAbsent
    /\ Scripted =>
          \A d \in DroppedSections :
              d[2] \notin ResolvedNames(d[1]) =>
                  \A i \in 1..Len(script) : ~References(script[i], d[1], d[2])

C4_Witness ==
    /\ Scripted
    /\ \E d \in DroppedSections :
          /\ CondIs(DocGroup(d[1]), TRUE)
          /\ d[2] \notin ResolvedNames(d[1])
          /\ ResolvedNames(d[1]) # {}

(* The node of the j-th surviving section of a list and what the          *)
(* specification says an override list does to one of its fields.         *)
OverridesOf(node) ==
    IF KeyOverrides \in DOMAIN node THEN node[KeyOverrides].l ELSE <<>>

OverrideSets(node, i, x) == x \in DOMAIN OverridesOf(node)[i].o[KeyOverride].o

Matching(node, x) ==
    {i \in 1..Len(OverridesOf(node)) :
        CondIs(OverridesOf(node)[i].o, TRUE) /\ OverrideSets(node, i, x)}

LastOf(S) == CHOOSE i \in S : \A j \in S : j <= i

OrdinaryFields(node) ==
    {x \in DOMAIN node \cup
           UNION {DOMAIN OverridesOf(node)[i].o[KeyOverride].o :
                     i \in 1..Len(OverridesOf(node))} :
        ~HasPrefix(x, <<".">>)}

FieldAsSpecified(node, r, x) ==
    IF Matching(node, x) # {}
    THEN /\ x \in DOMAIN r
         /\ r[x] = OverridesOf(node)[LastOf(Matching(node, x))].o[KeyOverride].o[x]
    ELSE IF x \in DOMAIN node THEN x \in DOMAIN r /\ r[x] = node[x]
    ELSE x \notin DOMAIN r

SurvivingLists ==
    UNION { { <<g, k>> : k \in DocSectionKeys(g) } :
            g \in {h \in DocGroups : CondIs(DocGroup(h), TRUE)} }

(* C5: the resolved value of a field is the value given by the last       *)
(* override in list order whose condition is true and that sets the       *)
(* field, and the node's own value when there is none.                    *)
C5_LastMatchingOverrideWins ==
    JustResolved =>
        \A gk \in SurvivingLists :
            \A j \in 1..Len(Survivors(gk[1], gk[2])) :
                /\ j <= Len(ResolvedList(gk[1], gk[2]))
                /\ \A x \in OrdinaryFields(Survivors(gk[1], gk[2])[j].o) :
                      FieldAsSpecified(Survivors(gk[1], gk[2])[j].o,
                                       ResolvedList(gk[1], gk[2])[j], x)

C5_Witness ==
    /\ Resolved
    /\ \E gk \in SurvivingLists :
          \E j \in 1..Len(Survivors(gk[1], gk[2])) :
              LET node == Survivors(gk[1], gk[2])[j].o
              IN  /\ Cardinality(Matching(node, KeyProto)) = 2
                  /\ OverridesOf(node)[1].o[KeyOverride].o
                        # OverridesOf(node)[2].o[KeyOverride].o
                  /\ ResolvedList(gk[1], gk[2])[j][KeyProto]
                        = OverridesOf(node)[2].o[KeyOverride].o[KeyProto]

ReservedKeys == {KeyIf, KeyOverrides, KeyName}

SetsField(cmd, g, name, key) ==
    \/ HasPrefix(cmd, StrUciSet \o g \o <<".">> \o name \o <<".">> \o key \o <<"=">>)
    \/ HasPrefix(cmd, StrUciAddList \o g \o <<".">> \o name \o <<".">> \o key \o <<"=">>)

(* C6: no group or section of the Resolved Tree carries a .if or          *)
(* .overrides key, and the script never sets a field named .if,           *)
(* .overrides or .name.                                                   *)
C6_ReservedKeysNeverEmitted ==
    /\ JustResolved =>
          \A g \in DOMAIN targetState.Config :
              /\ DOMAIN targetState.Config[g] \cap {KeyIf, KeyOverrides} = {}
              /\ \A k \in DOMAIN targetState.Config[g] :
                    \A i \in 1..Len(targetState.Config[g][k]) :
                        DOMAIN targetState.Config[g][k][i] \cap {KeyIf, KeyOverrides} = {}
    /\ Scripted =>
          \A g \in DOMAIN targetState.Config : \A name \in ResolvedNames(g) :
              \A key \in ReservedKeys : \A i \in 1..Len(script) :
                  ~SetsField(script[i], g, name, key)

(* C7: the .name of a section that survives resolution equals its .name   *)
(* in the document, whichever overrides match.                            *)
C7_NamePreserved ==
    JustResolved =>
        \A gk \in SurvivingLists :
            \A j \in 1..Len(Survivors(gk[1], gk[2])) :
                /\ j <= Len(ResolvedList(gk[1], gk[2]))
                /\ KeyName \in DOMAIN ResolvedList(gk[1], gk[2])[j]
                /\ ResolvedList(gk[1], gk[2])[j][KeyName]
                      = Survivors(gk[1], gk[2])[j].o[KeyName]

(* The class of a script command, in the order GetDeviceScript promises.  *)
CommandClass(cmd) ==
    IF HasPrefix(cmd, <<"opkg", " ", "remove", " ">>) THEN 1
    ELSE IF HasPrefix(cmd, <<"opkg", " ", "update">>) \/ HasPrefix(cmd, StrOpkgInstall) THEN 2
    ELSE IF HasPrefix(cmd, StrWhileDelete) THEN 3
    ELSE IF HasPrefix(cmd, StrUciSet) \/ HasPrefix(cmd, StrUciAddList) THEN 4
    ELSE IF cmd = StrUciCommit THEN 5
    ELSE IF cmd = StrReloadConfig THEN 6
    ELSE 0

(* C1: the script is the package removal, then the package update and     *)
(* install, then the reset loops, then the uci set and add_list commands, *)
(* then exactly one uci commit and exactly one reload_config, which is    *)
(* last; no command of a later class precedes one of an earlier class.    *)
C1_ScriptOrder ==
    Scripted =>
        /\ \A i \in 1..Len(script) : CommandClass(script[i]) \in 1..6
        /\ \A i, j \in 1..Len(script) :
              i < j => CommandClass(script[i]) <= CommandClass(script[j])
        /\ Cardinality({i \in 1..Len(script) : CommandClass(script[i]) = 5}) = 1
        /\ Cardinality({i \in 1..Len(script) : CommandClass(script[i]) = 6}) = 1
        /\ Len(script) >= 2
        /\ script[Len(script)] = StrReloadConfig
        /\ script[Len(script) - 1] = StrUciCommit

C1_Witness ==
    /\ Scripted
    /\ \A c \in 1..6 : \E i \in 1..Len(script) : CommandClass(script[i]) = c

----------------------------------------------------------------------------
(* The package plan, and the claims about it.                             *)

Profiles == docConfig.PackageProfiles

MatchingProfiles ==
    {i \in 1..Len(Profiles) : Evaluate(Profiles[i].If, ResCtx) = CondOk(TRUE)}

TokensOf(is) == UNION {Range(Profiles[i].items) : i \in is}

MatchingTokens == TokensOf(MatchingProfiles)

IsRemoval(t) == Len(t) > 0 /\ Head(t) = "-"

InstallNames == {targetState.PackagesToInstall[i].Name :
                    i \in 1..Len(targetState.PackagesToInstall)}

UninstallNames == Range(targetState.PackagesToUninstall)

(* C14: a package that a matching profile lists as -P is in the uninstall *)
(* set and never in the install set, whatever other profiles list.        *)
C14_UninstallWinsOverInstall ==
    Resolved =>
        \A t \in MatchingTokens :
            IsRemoval(t) => /\ Tail(t) \in UninstallNames
                            /\ Tail(t) \notin InstallNames

(* The text of a token before its first @, and all of the text after it.  *)
AtPositions(t) == {k \in 1..Len(t) : t[k] = "@"}

FirstAt(t) == CHOOSE k \in AtPositions(t) : \A m \in AtPositions(t) : k <= m

TokenName(t) == IF AtPositions(t) = {} THEN t ELSE SubSeq(t, 1, FirstAt(t) - 1)

TokenVersion(t) ==
    IF AtPositions(t) = {} THEN <<>> ELSE SubSeq(t, FirstAt(t) + 1, Len(t))

(* C15: the plan holds the distinct tokens of the matching profiles and   *)
(* nothing else: one install entry per distinct token without a leading   *)
(* -, one uninstall entry per distinct token with it, whatever the order  *)
(* of the profiles; how a token is parsed is the subject of C16.          *)
C15_PlanFromMatchingProfilesOnly ==
    Resolved =>
        /\ InstallNames = {TokenName(t) : t \in {u \in MatchingTokens : ~IsRemoval(u)}}
        /\ UninstallNames = {Tail(t) : t \in {u \in MatchingTokens : IsRemoval(u)}}
        /\ Len(targetState.PackagesToInstall)
              = Cardinality({u \in MatchingTokens : ~IsRemoval(u)})
        /\ Len(targetState.PackagesToUninstall)
              = Cardinality({u \in MatchingTokens : IsRemoval(u)})

C15_Witness ==
    /\ Resolved
    /\ MatchingProfiles # {}
    /\ TokensOf(1..Len(Profiles)) \ MatchingTokens # {}
    /\ Len(targetState.PackagesToInstall) > 0
    /\ Len(targetState.PackagesToUninstall) > 0

(* C16: a token with a leading - gives an uninstall entry named by the    *)
(* rest of the token; any other token gives an install entry whose name   *)
(* is the text before the first @ and whose version is all of the text    *)
(* after it, or no version without an @.                                  *)
C16_TokenParsing ==
    Resolved =>
        \A t \in MatchingTokens :
            IF IsRemoval(t) THEN Tail(t) \in UninstallNames
            ELSE \E i \in 1..Len(targetState.PackagesToInstall) :
                    /\ targetState.PackagesToInstall[i].Name = TokenName(t)
                    /\ targetState.PackagesToInstall[i].Version = TokenVersion(t)

(* The package commands of the script and the names they list.            *)
IsRemoveCmd(cmd) == HasPrefix(cmd, StrOpkgRemove)

IsInstallCmd(cmd) == HasPrefix(cmd, StrOpkgInstall)

IsUpdateCmd(cmd) == cmd = StrOpkgUpdate

NamesListed(cmd) ==
    IF IsRemoveCmd(cmd)
    THEN Split(SubSeq(cmd, Len(StrOpkgRemove) + 1, Len(cmd)), <<" ">>)
    ELSE Split(SubSeq(cmd, Len(StrOpkgInstall) + 1, Len(cmd)), <<" ">>)

RemoveCmds == {i \in 1..Len(script) : IsRemoveCmd(script[i])}

InstallCmds == {i \in 1..Len(script) : IsInstallCmd(script[i])}

UpdateCmds == {i \in 1..Len(script) : IsUpdateCmd(script[i])}

(* The package names that occur, in ascending order.                      *)
PkgOrder == <<PkgFw4, PkgLuci, PkgSqm>>

Rank(name) == CHOOSE i \in 1..Len(PkgOrder) : PkgOrder[i] = name

Ascending(names) ==
    \A i, j \in 1..Len(names) : i < j => Rank(names[i]) <= Rank(names[j])

(* C17: every opkg remove and opkg install command lists its package      *)
(* names in ascending order.                                              *)
C17_PackageNamesSorted ==
    Scripted =>
        \A i \in RemoveCmds \cup InstallCmds : Ascending(NamesListed(script[i]))

(* The exemptions in force, and the Reset Scope.                          *)
Exemptions ==
    UNION {Range(docConfig.ConfigsToNotReset[i].items) :
              i \in {j \in 1..Len(docConfig.ConfigsToNotReset) :
                        Evaluate(docConfig.ConfigsToNotReset[j].If, ResCtx)
                            = CondOk(TRUE)}}

ResetScope == targetState.ConfigSectionsToReset

SchemaGroups == DOMAIN devSchema.ConfigSections

InScope(g, s) == g \in DOMAIN ResetScope /\ s \in Range(ResetScope[g])

(* C18: section-type s of group g is in the Reset Scope iff the schema    *)
(* has it and neither g.* nor g.s is exempted by an entry whose condition *)
(* is true; a group with nothing left is no key of the Reset Scope.       *)
C18_ResetScope ==
    Resolved =>
        /\ DOMAIN ResetScope \subseteq SchemaGroups
        /\ \A g \in DOMAIN ResetScope :
              /\ Len(ResetScope[g]) > 0
              /\ Range(ResetScope[g]) \subseteq Range(devSchema.ConfigSections[g])
        /\ \A g \in SchemaGroups :
              \A s \in Range(devSchema.ConfigSections[g]) :
                  InScope(g, s) <=> /\ (g \o <<".", "*">>) \notin Exemptions
                                    /\ (g \o <<".">> \o s) \notin Exemptions

C18_Witness ==
    /\ Resolved
    /\ (KeyNetwork \o <<".", "*">>) \in Exemptions
    /\ (KeyNetwork \o <<".">> \o KeyInterface) \in Exemptions
    /\ KeyNetwork \in SchemaGroups
    /\ KeyNetwork \notin DOMAIN ResetScope
    /\ KeySystem \in DOMAIN ResetScope
    /\ Len(docConfig.ConfigsToNotReset) = 2
    /\ \E i \in 1..2 : Evaluate(docConfig.ConfigsToNotReset[i].If, ResCtx) = CondOk(FALSE)

(* The snapshot of installed packages that the executor supplied.         *)
SnapshotSupplied == ~executor.nil /\ ~executor.fails

SnapshotNames ==
    {parseInstalledPackages(executor.output)[i].Name :
        i \in 1..Len(parseInstalledPackages(executor.output))}

(* C19: with a snapshot supplied, the removal command names only packages *)
(* of the snapshot and the install command names none of them.            *)
C19_SnapshotFiltersPackages ==
    (Scripted /\ SnapshotSupplied) =>
        /\ \A i \in RemoveCmds : Range(NamesListed(script[i])) \subseteq SnapshotNames
        /\ \A i \in InstallCmds : Range(NamesListed(script[i])) \cap SnapshotNames = {}

(* The lists GetPackageCommands is left with after filtering.             *)
InstalledSeen ==
    IF SnapshotSupplied THEN parseInstalledPackages(executor.output) ELSE <<>>

LeftToUninstall == filteredUninstall(targetState.PackagesToUninstall, InstalledSeen)

LeftToInstall == filteredInstall(targetState.PackagesToInstall, InstalledSeen)

(* C20: at most one removal and one install command; the removal command  *)
(* is there iff something is left to uninstall, and comes first; the      *)
(* update command is there iff something is left to install, and the      *)
(* install command follows it at once; nothing is left, nothing is        *)
(* emitted.                                                               *)
C20_PackageCommandShape ==
    Scripted =>
        /\ Cardinality(RemoveCmds) <= 1
        /\ Cardinality(InstallCmds) <= 1
        /\ Cardinality(UpdateCmds) <= 1
        /\ RemoveCmds # {} <=> Len(LeftToUninstall) > 0
        /\ RemoveCmds \subseteq {1}
        /\ UpdateCmds # {} <=> Len(LeftToInstall) > 0
        /\ InstallCmds = {i + 1 : i \in UpdateCmds}
        /\ \A i \in RemoveCmds : NamesListed(script[i]) = LeftToUninstall
        /\ \A i \in InstallCmds : NamesListed(script[i]) = NamesOf(LeftToInstall)

C20_Witness ==
    /\ Scripted
    /\ SnapshotSupplied
    /\ RemoveCmds # {}
    /\ InstallCmds # {}
    /\ Len(LeftToInstall) < Len(targetState.PackagesToInstall)

----------------------------------------------------------------------------
(* The claims about command generation and the shape of the Resolved Tree. *)

(* C21: running GenerateCommands and GetResetCommands twice on the same   *)
(* Resolved Tree and Reset Scope yields the same commands in the same     *)
(* order.                                                                  *)
C21_GenerationRepeatable ==
    Resolved =>
        /\ \A first, second \in GenerateCommands(targetState.Config) :
              first = second
        /\ \A first, second \in GetResetCommands(targetState.ConfigSectionsToReset) :
              first = second

(* The sections of the Resolved Tree, each as <<group, type, index>>.     *)
ResolvedSections ==
    UNION { UNION { { <<g, t, i>> : i \in 1..Len(targetState.Config[g][t]) } :
                    t \in DOMAIN targetState.Config[g] } :
            g \in DOMAIN targetState.Config }

SectionAt(s) == targetState.Config[s[1]][s[2]][s[3]]

NameOfSection(sec) ==
    IF KeyName \in DOMAIN sec /\ sec[KeyName].t = "str" THEN sec[KeyName].s
    ELSE <<>>

IdentifierOf(s) == s[1] \o <<".">> \o NameOfSection(SectionAt(s))

CreateCommand(s) == StrUciSet \o IdentifierOf(s) \o <<"=">> \o s[2]

IsCreate(cmd) == HasPrefix(cmd, StrUciSet) /\ cmd[Len(cmd)] # SQ

(* The commands between the create command at p and the next one.         *)
BlockAfter(cmds, p) ==
    LET later == {q \in (p + 1)..Len(cmds) : IsCreate(cmds[q])}
        stop == IF later = {} THEN Len(cmds) + 1
                ELSE CHOOSE q \in later : \A r \in later : q <= r
    IN  SubSeq(cmds, p + 1, stop - 1)

FieldsOf(sec) == DOMAIN sec \ {KeyName}

ExpectedCount(sec) ==
    LET counts == [f \in FieldsOf(sec) |->
                      IF sec[f].t = "list" THEN Len(sec[f].l) ELSE 1]
        RECURSIVE Sum(_)
        Sum(fs) == IF fs = {} THEN 0
                   ELSE LET f == CHOOSE x \in fs : TRUE
                        IN  counts[f] + Sum(fs \ {f})
    IN  Sum(FieldsOf(sec))

FieldCommandsIn(block, id, sec) ==
    /\ Len(block) = ExpectedCount(sec)
    /\ \A f \in FieldsOf(sec) :
          IF sec[f].t = "list"
          THEN SelectSeq(block,
                         LAMBDA c : HasPrefix(c, StrUciAddList \o id \o <<".">>
                                                     \o f \o <<"=">>))
                 = [i \in 1..Len(sec[f].l) |->
                       StrUciAddList \o id \o <<".">> \o f \o <<"=", SQ>>
                           \o coerceValue(sec[f].l[i]) \o <<SQ>>]
          ELSE \E i \in 1..Len(block) :
                  block[i] = StrUciSet \o id \o <<".">> \o f \o <<"=", SQ>>
                                 \o coerceValue(sec[f]) \o <<SQ>>

(* C22: for every section of the Resolved Tree GenerateCommands emits one *)
(* create command and, after it and before the next create command, one  *)
(* set command per scalar field other than .name and one add_list command *)
(* per list element in list order; no section is left without commands.   *)
C22_EverySectionHasItsCommands ==
    Resolved =>
        \A cmds \in GenerateCommands(targetState.Config) :
            /\ Cardinality({p \in 1..Len(cmds) : IsCreate(cmds[p])})
                   = Cardinality(ResolvedSections)
            /\ \A s \in ResolvedSections :
                  \E p \in 1..Len(cmds) :
                      /\ cmds[p] = CreateCommand(s)
                      /\ FieldCommandsIn(BlockAfter(cmds, p), IdentifierOf(s),
                                         SectionAt(s))

(* C24: the Resolved Tree has no empty group and no empty section list.   *)
C24_NoEmptyGroupOrList ==
    Resolved =>
        \A g \in DOMAIN targetState.Config :
            /\ DOMAIN targetState.Config[g] # {}
            /\ \A t \in DOMAIN targetState.Config[g] :
                  Len(targetState.Config[g][t]) > 0

(* A group that holds and keeps one section list while all the sections   *)
(* of another of its lists are dropped, beside a group without lists.     *)
C24_Witness ==
    /\ Resolved
    /\ \E g \in DocGroups : DocSectionKeys(g) = {} /\ g \notin DOMAIN targetState.Config
    /\ \E g \in DocGroups \cap DOMAIN targetState.Config :
          \E t \in DocSectionKeys(g) :
              /\ Len(DocSections(g, t)) > 0
              /\ Len(Survivors(g, t)) = 0
              /\ t \notin DOMAIN targetState.Config[g]

(* C25: what the document holds under the reserved extra key is in the    *)
(* resolved output unchanged.                                              *)
C25_ExtraPassedThrough ==
    Resolved /\ KeyExtra \in DOMAIN docConfig.Config =>
        /\ KeyExtra \in DOMAIN targetState.Config
        /\ targetState.Config[KeyExtra] = docConfig.Config[KeyExtra]

(* C30: when the executor's opkg list-installed fails, the script is one  *)
(* GetDeviceScript returns when no executor is supplied.                  *)
C30_FailedListingAsNoExecutor ==
    Scripted /\ ~executor.nil /\ executor.fails =>
        script \in GetDeviceScript(targetState, NoClient)

C30_Witness ==
    /\ Scripted
    /\ ~executor.nil
    /\ executor.fails
    /\ Len(targetState.PackagesToInstall) > 0
    /\ Len(targetState.PackagesToUninstall) > 0

----------------------------------------------------------------------------
(* The claims about the mock client.                                      *)

ScriptRan == resPc = "executed"

NamedSections ==
    {s \in ResolvedSections :
        KeyName \in DOMAIN SectionAt(s) /\ SectionAt(s)[KeyName].t = "str"}

ScalarFields(sec) == {f \in FieldsOf(sec) : sec[f].t # "list"}

(* The fields of the sections of the document that are dropped, each as   *)
(* <<group, section name, field>>.                                        *)
DroppedFields ==
    UNION { UNION { UNION { { <<g, DocSections(g, k)[i].o[KeyName].s, f>> :
                                f \in {x \in DOMAIN DocSections(g, k)[i].o :
                                          ~HasPrefix(x, <<".">>)} } :
                            i \in {j \in 1..Len(DocSections(g, k)) :
                                      /\ KeyName \in DOMAIN DocSections(g, k)[j].o
                                      /\ \/ CondIs(DocGroup(g), FALSE)
                                         \/ /\ CondIs(DocGroup(g), TRUE)
                                            /\ CondIs(DocSections(g, k)[j].o, FALSE)} } :
                    k \in DocSectionKeys(g) } :
            g \in DocGroups }

FailingCall ==
    /\ mockPc = "ready"
    /\ mock.FailOnCommand # <<>>
    /\ Len(mockCalls') = Len(mockCalls) + 1
    /\ Contains(mockCalls'[Len(mockCalls')], mock.FailOnCommand)

(* C27: Execute appends the command to ExecutedCmds on every call, so     *)
(* ExecutedCmds holds exactly the commands of the calls in call order,    *)
(* the failing ones included; a call that fails because the command       *)
(* contains FailOnCommand leaves UCIState and InstalledPkgs unchanged and *)
(* does not call OnExecute.                                               *)
C27_EveryCallRecorded ==
    /\ [](mockPc = "ready" => mock.ExecutedCmds = mockCalls)
    /\ [][FailingCall =>
             /\ mockErr' = MockError
             /\ mock'.UCIState = mock.UCIState
             /\ mock'.InstalledPkgs = mock.InstalledPkgs
             /\ hookCalls' = hookCalls]_vars

(* A call fails after calls that changed the UCI state and the installed  *)
(* packages.                                                              *)
C27_Witness ==
    /\ mockPc = "ready"
    /\ mockErr = MockError
    /\ Len(mock.ExecutedCmds) >= 3
    /\ mock.UCIState # <<>>
    /\ mock.InstalledPkgs # getFactoryPackages

----------------------------------------------------------------------------
(* What a device was sent, and the claims about provisioning.             *)

CmdsOf(log) == [i \in 1..Len(log) |-> log[i].cmd]

SentTo(host) == CmdsOf(SelectSeq(sentLog, LAMBDA e : e.host = host))

CurrentHost == enabledDevices[devIdx].Hostname

RevertOf(group) == <<"uci", " ", "revert", " ", group>>

AllReverts ==
    <<RevertOf("system"), RevertOf("network"), RevertOf("firewall"),
      RevertOf("dhcp"), RevertOf("wireless"), RevertOf("dropbear")>>

BeforeScript == <<StrCatBoard, StrOpkgListInstalled>>

(* C2: when the command at position i is the first to fail, no command    *)
(* after position i is sent to the device, a uci revert is then issued    *)
(* for each of system, network, firewall, dhcp, wireless and dropbear     *)
(* whether or not reverts fail, and the error returned names the failing  *)
(* command.                                                               *)
C2_FirstFailureAbortsAndReverts ==
    /\ provPc = "executing" =>
          SentTo(CurrentHost) = BeforeScript \o SubSeq(commands, 1, cmdIdx - 1)
    /\ provPc = "reverting" =>
          /\ revertIdx - 1 <= Len(AllReverts)
          /\ SentTo(CurrentHost) = BeforeScript \o SubSeq(commands, 1, cmdIdx)
                                      \o SubSeq(AllReverts, 1, revertIdx - 1)
    /\ provRet.err = "RemoteCommandFailed" =>
          /\ SentTo(CurrentHost) = BeforeScript \o SubSeq(commands, 1, cmdIdx)
                                      \o AllReverts
          /\ provRet.host = CurrentHost
          /\ provRet.cmd = commands[cmdIdx]

C2_Witness ==
    /\ provRet.err = "RemoteCommandFailed"
    /\ revertFailed
    /\ cmdIdx > 1
    /\ cmdIdx < Len(commands)

Eligible(dev) == IsEnabled(dev) /\ dev.IPAddr # <<>> /\ dev.HasProvisioningConfig

(* C3: a failure that concerns one device does not block the others:      *)
(* when ProvisionConfig ends, every enabled device with an address and    *)
(* provisioning config, other than the device the failure concerns, has   *)
(* been resolved.                                                         *)
C3_FailureDoesNotBlockOthers ==
    provPc \in {"done", "crashed"} =>
        \A i \in 1..Len(provConfig.Devices) :
            /\ Eligible(provConfig.Devices[i])
            /\ provConfig.Devices[i].Hostname # provRet.host
            => \E j \in 1..Len(resolvedLog) :
                  resolvedLog[j] = provConfig.Devices[i].Hostname

(* C26: verifyDevice returns an error whenever the model id read from     *)
(* board.json differs from the configured one, and provisionDevice then   *)
(* returns before GetDeviceScript: the device is sent nothing but the     *)
(* read of board.json.                                                    *)
C26_MismatchStopsBeforeScript ==
    /\ provPc = "connect" =>
          \A found \in BoardModels :
              found # enabledDevices[devIdx].ModelID =>
                  verifyDevice(TRUE, found, enabledDevices[devIdx].ModelID)
                      # ErrNone
    /\ provPc \in {"script", "executing", "reverting"} =>
          provRet.err # "ModelMismatch"
    /\ provRet.err = "ModelMismatch" =>
          /\ provPc = "done"
          /\ provRet.host = CurrentHost
          /\ SentTo(CurrentHost) = <<StrCatBoard>>

(* A second device is refused for its model id after the first one got   *)
(* its script.                                                            *)
C26_Witness ==
    /\ provRet.err = "ModelMismatch"
    /\ devIdx > 1
    /\ Len(sentLog) > 3

(* The devices provisionDevice has returned nil for, or is about to: a    *)
(* failure ends the run, so these are the devices resolved before the     *)
(* last one, and the last one once its loop over the commands is through. *)
HostsProvisioned ==
    { resolvedLog[i] :
        i \in {j \in 1..Len(resolvedLog) :
                  \/ j < Len(resolvedLog)
                  \/ provPc = "devices"
                  \/ provRet = RetOk
                  \/ provPc = "executing" /\ cmdIdx > Len(commands)} }

IsRevert(cmd) == HasPrefix(cmd, StrUciRevert)

(* C28: when no command of the script fails, provisionDevice sends every  *)
(* command of the script once, in script order, issues no uci revert and  *)
(* returns success; uci commit and reload_config are the last two         *)
(* commands sent.                                                         *)
C28_CleanRunSendsScriptOnce ==
    /\ provPc = "executing" /\ cmdIdx > Len(commands) =>
          /\ SentTo(CurrentHost) = BeforeScript \o commands
          /\ provRet = RetRunning
    /\ provPc \in {"devices", "executing", "done"} =>
          \A host \in HostsProvisioned :
              /\ \A i \in 1..Len(SentTo(host)) : ~IsRevert(SentTo(host)[i])
              /\ Len(SentTo(host)) >= 4
              /\ SubSeq(SentTo(host), Len(SentTo(host)) - 1, Len(SentTo(host)))
                     = <<StrUciCommit, StrReloadConfig>>
    /\ provRet = RetOk =>
          \A i \in 1..Len(sentLog) : ~IsRevert(sentLog[i].cmd)

C28_Witness ==
    /\ provRet = RetOk
    /\ Cardinality(HostsProvisioned) = 2
    /\ \E host \in HostsProvisioned : Len(SentTo(host)) > 4

HostsOf(log) == {log[i].host : i \in 1..Len(log)}

DisabledHosts ==
    { provConfig.Devices[i].Hostname :
        i \in {j \in 1..Len(provConfig.Devices) : ~IsEnabled(provConfig.Devices[j])} }

(* C29: every enabled device is resolved against the schema discovered    *)
(* from that same device, also when two enabled devices share a model id, *)
(* and a device that is not enabled is never contacted or resolved.       *)
C29_OwnSchemaPerDevice ==
    /\ provPc \in {"connect", "script", "executing", "reverting"} =>
          /\ deviceSchemas[enabledDevices[devIdx].ModelID]
                 = DiscoveredSchema(enabledDevices[devIdx])
          /\ devState \in GetOpenWrtState(provConfig, enabledDevices[devIdx],
                                          DiscoveredSchema(enabledDevices[devIdx]))
    /\ \A host \in DisabledHosts :
          /\ host \notin HostsOf(sentLog)
          /\ host \notin Range(schemaLog)
          /\ host \notin Range(resolvedLog)

====
